---- MODULE Spec2Model ----
(***************************************************************************)
(* Knowledge-graph builder (services/kg_builder.py): term dictionaries,    *)
(* heuristic candidate extraction, optional NLP enrichment and the graph   *)
(* assembler build_graph, modelled as a state machine.                    *)
(*                                                                         *)
(* Python strings are sequences of one-character strings, so that          *)
(* lower(), strip(), substring tests, sorting and id formatting are        *)
(* computed the way the code computes them.                                *)
(***************************************************************************)
EXTENDS Integers, Sequences, FiniteSets, TLC

VARIABLES
  parsed_dir,   \* input directory: file name -> file content
  spacy_env,    \* what "import spacy" / spacy.load can do in this environment
  pc,           \* position of build_graph
  nlp,          \* build_graph's local nlp
  items,        \* build_graph's local items
  idx,          \* loop variable of "for idx, item in enumerate(items, start=1)"
  node_index,   \* build_graph's node_index
  nodes,        \* build_graph's nodes
  edges,        \* build_graph's edges
  loc,          \* per-document locals of the loop body
  nodes_json,   \* content of <out_dir>/nodes.json
  edges_json,   \* content of <out_dir>/edges.json
  logs,         \* what log() printed in the running invocation
  builds,       \* number of build_graph invocations started
  returns,      \* what each finished invocation returned, with its inputs
  call,         \* a single call of a pure function: its arguments and result
  enriched,     \* the nlp_cands of the documents processed so far by the invocation
  dir_exists,   \* whether parsed_dir names a directory that can be listed
  exc,          \* the exception that left build_graph ("" when none did)
  merged,       \* the merged candidates of the documents processed so far
  api           \* the API process: the cache of _load_json and its last responses

vars == << parsed_dir, spacy_env, pc, nlp, items, idx, node_index, nodes, edges,
           loc, nodes_json, edges_json, logs, builds, returns, call, enriched,
           dir_exists, exc, merged, api >>

----------------------------------------------------------------------------
(* Characters and Python's str operations *)

Printable ==
  <<" ","!","\"","#","$","%","&","'","(",")","*","+",",","-",".","/","0","1","2","3","4","5","6","7","8","9",":",";","<","=",">","?","@","A","B","C","D","E","F","G","H","I","J","K","L","M","N","O","P","Q","R","S","T","U","V","W","X","Y","Z","[","\\","]","^","_","GRAVE","a","b","c","d","e","f","g","h","i","j","k","l","m","n","o","p","q","r","s","t","u","v","w","x","y","z","{","|","}","~">>

\* Code point of the first printable character (the space). The entry GRAVE
\* stands for the grave accent (code point 96), which no input here contains.
FirstPrintable == 32

Chars == {Printable[i] : i \in 1..Len(Printable)} \cup {"\t", "\n"}

\* ord(c)
OrdMap ==
  [c \in Chars |->
     IF c = "\t" THEN 9
     ELSE IF c = "\n" THEN 10
     ELSE (CHOOSE i \in 1..Len(Printable) : Printable[i] = c) + FirstPrintable - 1]

Ord(c) == OrdMap[c]

Chr(n) == Printable[n - FirstPrintable + 1]

\* Code points of "A" and "Z", and the distance to the lower-case letters.
OrdUpperA == 65
OrdUpperZ == 90
CaseOffset == 32

\* str.lower() on one character
LowerChar(c) ==
  IF Ord(c) >= OrdUpperA /\ Ord(c) <= OrdUpperZ THEN Chr(Ord(c) + CaseOffset) ELSE c

UpperChar(c) ==
  IF Ord(c) >= OrdUpperA + CaseOffset /\ Ord(c) <= OrdUpperZ + CaseOffset
  THEN Chr(Ord(c) - CaseOffset) ELSE c

\* s.lower(), s.upper()
Lower(s) == [i \in 1..Len(s) |-> LowerChar(s[i])]
Upper(s) == [i \in 1..Len(s) |-> UpperChar(s[i])]

\* Python's "sub in s" for strings
Contains(sub, s) ==
  \E i \in 0..(Len(s) - Len(sub)) : \A j \in 1..Len(sub) : s[i + j] = sub[j]

\* s[:n]
Take(s, n) == IF Len(s) <= n THEN s ELSE SubSeq(s, 1, n)

\* What str.strip() strips and the regular expression \s matches.
IsSpace(c) == c \in {" ", "\t", "\n"}

RECURSIVE LStrip(_)
LStrip(s) == IF s # <<>> /\ IsSpace(Head(s)) THEN LStrip(Tail(s)) ELSE s

RECURSIVE RStrip(_)
RStrip(s) ==
  IF s # <<>> /\ IsSpace(s[Len(s)]) THEN RStrip(SubSeq(s, 1, Len(s) - 1)) ELSE s

\* s.strip()
Strip(s) == RStrip(LStrip(s))

\* re.sub(r"\s+", " ", s): every maximal run of whitespace becomes one space
\* (computed on the two halves of s, which are joined with one space where a
\* run of whitespace spans the cut)
RECURSIVE CollapseSpaces(_)
CollapseSpaces(s) ==
  IF s = <<>> THEN <<>>
  ELSE IF Len(s) = 1 THEN (IF IsSpace(s[1]) THEN <<" ">> ELSE s)
  ELSE LET h == Len(s) \div 2
           l == CollapseSpaces(SubSeq(s, 1, h))
           r == CollapseSpaces(SubSeq(s, h + 1, Len(s)))
       IN  IF l[Len(l)] = " " /\ r[1] = " " THEN l \o Tail(r) ELSE l \o r

\* s.replace(a, b) for single characters a, b
ReplaceChar(s, a, b) == [i \in 1..Len(s) |-> IF s[i] = a THEN b ELSE s[i]]

\* str(n) for n >= 0
RECURSIVE IntToStr(_)
IntToStr(n) ==
  IF n < 10 THEN <<Chr(Ord("0") + n)>>
  ELSE IntToStr(n \div 10) \o <<Chr(Ord("0") + (n % 10))>>

\* a < b for Python strings: lexicographic by code point
RECURSIVE StrLess(_, _)
StrLess(a, b) ==
  IF b = <<>> THEN FALSE
  ELSE IF a = <<>> THEN TRUE
  ELSE IF Head(a) = Head(b) THEN StrLess(Tail(a), Tail(b))
  ELSE Ord(Head(a)) < Ord(Head(b))

RECURSIVE InsertSorted(_, _)
InsertSorted(x, seq) ==
  IF seq = <<>> THEN <<x>>
  ELSE IF StrLess(x, Head(seq)) THEN <<x>> \o seq
  ELSE <<Head(seq)>> \o InsertSorted(x, Tail(seq))

RECURSIVE SortedAcc(_, _)
SortedAcc(seq, acc) ==
  IF seq = <<>> THEN acc ELSE SortedAcc(Tail(seq), InsertSorted(Head(seq), acc))

\* sorted(seq) for an iterable of strings
Sorted(seq) == SortedAcc(seq, <<>>)

\* The orders in which Python may iterate a set (or glob may list a directory)
Orders(S) ==
  {o \in [1..Cardinality(S) -> S] : \A i, j \in DOMAIN o : i # j => o[i] # o[j]}

Range(seq) == {seq[i] : i \in 1..Len(seq)}

\* sep.join(parts)
RECURSIVE Join(_, _)
Join(sep, parts) ==
  IF parts = <<>> THEN <<>>
  ELSE IF Len(parts) = 1 THEN parts[1]
  ELSE parts[1] \o sep \o Join(sep, Tail(parts))

----------------------------------------------------------------------------
(* Term dictionaries *)

BIO_SYSTEM_TERMS ==
  << <<"h","u","m","a","n">>,
     <<"a","s","t","r","o","n","a","u","t">>,
     <<"c","r","e","w">>,
     <<"m","o","u","s","e">>,
     <<"m","i","c","e">>,
     <<"r","o","d","e","n","t">>,
     <<"r","a","t">>,
     <<"r","a","t","s">>,
     <<"p","l","a","n","t">>,
     <<"a","r","a","b","i","d","o","p","s","i","s">>,
     <<"s","e","e","d","l","i","n","g">>,
     <<"y","e","a","s","t">>,
     <<"d","r","o","s","o","p","h","i","l","a">>,
     <<"z","e","b","r","a","f","i","s","h">>,
     <<"c","e","l","l">>,
     <<"c","e","l","l","s">>,
     <<"e","n","d","o","t","h","e","l","i","a","l">>,
     <<"o","s","t","e","o","b","l","a","s","t">>,
     <<"o","s","t","e","o","c","l","a","s","t">>,
     <<"t","i","s","s","u","e">> >>

EFFECT_TERMS ==
  << <<"b","o","n","e"," ","d","e","n","s","i","t","y">>,
     <<"b","o","n","e"," ","l","o","s","s">>,
     <<"m","u","s","c","l","e"," ","a","t","r","o","p","h","y">>,
     <<"i","m","m","u","n","e"," ","r","e","s","p","o","n","s","e">>,
     <<"g","e","n","e"," ","e","x","p","r","e","s","s","i","o","n">>,
     <<"o","x","i","d","a","t","i","v","e"," ","s","t","r","e","s","s">>,
     <<"r","a","d","i","a","t","i","o","n"," ","d","a","m","a","g","e">>,
     <<"m","i","c","r","o","g","r","a","v","i","t","y"," ","a","d","a","p","t","a","t","i","o","n">>,
     <<"g","r","o","w","t","h">>,
     <<"c","e","l","l"," ","p","r","o","l","i","f","e","r","a","t","i","o","n">>,
     <<"a","p","o","p","t","o","s","i","s">>,
     <<"i","n","f","l","a","m","m","a","t","i","o","n">>,
     <<"t","u","m","o","r">>,
     <<"D","N","A"," ","d","a","m","a","g","e">> >>

EXPERIMENT_TERMS ==
  << <<"e","x","p","e","r","i","m","e","n","t">>,
     <<"s","t","u","d","y">>,
     <<"m","i","s","s","i","o","n">>,
     <<"f","l","i","g","h","t">>,
     <<"s","p","a","c","e","f","l","i","g","h","t">>,
     <<"I","S","S">>,
     <<"S","h","u","t","t","l","e">>,
     <<"g","r","o","u","n","d"," ","c","o","n","t","r","o","l">>,
     <<"e","x","p","o","s","u","r","e">>,
     <<"r","a","d","i","a","t","i","o","n">>,
     <<"m","i","c","r","o","g","r","a","v","i","t","y">> >>

PROJECT_TERMS ==
  << <<"p","r","o","j","e","c","t">>,
     <<"g","r","a","n","t">>,
     <<"a","w","a","r","d">>,
     <<"B","P","S">>,
     <<"H","R","P">>,
     <<"T","a","s","k"," ","B","o","o","k">>,
     <<"N","A","S","A"," ","T","a","s","k"," ","B","o","o","k">> >>

\* Node types
T_Article == <<"A","r","t","i","c","l","e">>
T_Experiment == <<"E","x","p","e","r","i","m","e","n","t">>
T_Project == <<"P","r","o","j","e","c","t">>
T_BioSystem == <<"B","i","o","l","o","g","i","c","a","l"," ","S","y","s","t","e","m">>
T_Effect == <<"E","f","f","e","c","t">>

\* Edge relations
DESCRIBES == "DESCRIBES"
FUNDS == "FUNDS"
INVOLVES == "INVOLVES"
OBSERVES == "OBSERVES"

----------------------------------------------------------------------------
(* normalize_label and extract_candidates *)

\* The length cap of normalize_label.
MaxLabelLen == 300

\* normalize_label(text)
\* normalize_label without the cut at 300 characters
normalize_label_uncut(text) == CollapseSpaces(Strip(text))

normalize_label(text) == Take(CollapseSpaces(Strip(text)), MaxLabelLen)

\* A candidate mapping: one set of terms per entity type
EmptyCands ==
  [Experiment |-> {}, Project |-> {}, BioSystem |-> {}, Effect |-> {}]

\* extract_candidates(text)
extract_candidates(text) ==
  LET text_low == Lower(text)
  IN  [ BioSystem |->
          {BIO_SYSTEM_TERMS[i] : i \in
             {j \in 1..Len(BIO_SYSTEM_TERMS) : Contains(BIO_SYSTEM_TERMS[j], text_low)}},
        Effect |->
          {EFFECT_TERMS[i] : i \in
             {j \in 1..Len(EFFECT_TERMS) : Contains(EFFECT_TERMS[j], text_low)}},
        Experiment |->
          {EXPERIMENT_TERMS[i] : i \in
             {j \in 1..Len(EXPERIMENT_TERMS) :
                Contains(Lower(EXPERIMENT_TERMS[j]), text_low)}},
        Project |->
          {PROJECT_TERMS[i] : i \in
             {j \in 1..Len(PROJECT_TERMS) :
                Contains(Lower(PROJECT_TERMS[j]), text_low)}} ]

----------------------------------------------------------------------------
(* JSON values as json.load returns them, and the outcome of a call *)

JNull == [t |-> "null"]
JBool(b) == [t |-> "bool", v |-> b]
JNum(n) == [t |-> "num", v |-> n]
JStr(s) == [t |-> "str", v |-> s]
JList(l) == [t |-> "list", v |-> l]
JDict(d) == [t |-> "dict", v |-> d]

\* The content of a file that json.load cannot read
Unreadable == [t |-> "unreadable"]

\* A call returns a value or raises an exception
Ok(v) == [exc |-> "", val |-> v]
Raise(e) == [exc |-> e]

\* Python truthiness of a JSON value (or of None, which is JNull)
Truthy(j) ==
  CASE j.t = "null" -> FALSE
    [] j.t = "bool" -> j.v
    [] j.t = "num" -> j.v # 0
    [] j.t = "str" -> j.v # <<>>
    [] j.t = "list" -> j.v # <<>>
    [] j.t = "dict" -> DOMAIN j.v # {}
    [] OTHER -> TRUE

\* key in item, for a str key
PyIn(key, item) ==
  CASE item.t = "dict" -> Ok(key \in DOMAIN item.v)
    [] item.t = "list" -> Ok(\E i \in 1..Len(item.v) : item.v[i] = JStr(key))
    [] item.t = "str" -> Ok(Contains(key, item.v))
    [] OTHER -> Raise("TypeError")

\* item[key], for a str key
PyGetItem(item, key) ==
  CASE item.t = "dict" ->
         IF key \in DOMAIN item.v THEN Ok(item.v[key]) ELSE Raise("KeyError")
    [] OTHER -> Raise("TypeError")

\* item.get(key)
PyGet(item, key) ==
  CASE item.t = "dict" ->
         IF key \in DOMAIN item.v THEN Ok(item.v[key]) ELSE Ok(JNull)
    [] OTHER -> Raise("AttributeError")

K_title == <<"t","i","t","l","e">>
K_article_title == <<"a","r","t","i","c","l","e","_","t","i","t","l","e">>
K_paper_title == <<"p","a","p","e","r","_","t","i","t","l","e">>
K_abstract == <<"a","b","s","t","r","a","c","t">>
K_summary == <<"s","u","m","m","a","r","y">>
K_content == <<"c","o","n","t","e","n","t">>
K_fulltext == <<"f","u","l","l","t","e","x","t">>
K_sections == <<"s","e","c","t","i","o","n","s">>
K_text == <<"t","e","x","t">>

TitleKeys == <<K_title, K_article_title, K_paper_title>>
TextKeys == <<K_abstract, K_summary, K_content, K_fulltext>>

----------------------------------------------------------------------------
(* get_article_label and concatenate_text *)

RECURSIVE ArticleLabelFrom(_, _, _)
ArticleLabelFrom(item, fallback, keys) ==
  IF keys = <<>> THEN Ok(normalize_label(fallback))
  ELSE LET key == Head(keys)
           has == PyIn(key, item)
       IN  IF has.exc # "" THEN has
           ELSE IF ~has.val THEN ArticleLabelFrom(item, fallback, Tail(keys))
           ELSE LET got == PyGetItem(item, key)
                IN  IF got.exc # "" THEN got
                    ELSE IF got.val.t = "str" /\ Strip(got.val.v) # <<>>
                         THEN Ok(normalize_label(got.val.v))
                         ELSE ArticleLabelFrom(item, fallback, Tail(keys))

\* get_article_label that looks at the title field only
get_article_label_title_only(item, fallback) == ArticleLabelFrom(item, fallback, <<K_title>>)

\* get_article_label(item, fallback)
get_article_label(item, fallback) == ArticleLabelFrom(item, fallback, TitleKeys)

\* The loop over abstract, summary, content, fulltext: the parts, or the exception
RECURSIVE TextParts(_, _, _)
TextParts(item, keys, parts) ==
  IF keys = <<>> THEN Ok(parts)
  ELSE LET key == Head(keys)
           has == PyIn(key, item)
       IN  IF has.exc # "" THEN has
           ELSE IF ~has.val THEN TextParts(item, Tail(keys), parts)
           ELSE LET got == PyGetItem(item, key)
                IN  IF got.exc # "" THEN got
                    ELSE IF got.val.t = "str"
                         THEN TextParts(item, Tail(keys), Append(parts, got.val.v))
                         ELSE TextParts(item, Tail(keys), parts)

\* The loop over the sections list
RECURSIVE SectionParts(_, _)
SectionParts(sections, parts) ==
  IF sections = <<>> THEN parts
  ELSE LET s == Head(sections)
       IN  IF s.t = "dict"
           THEN LET a == PyGet(s, K_text).val
                    txt == IF Truthy(a) THEN a ELSE PyGet(s, K_content).val
                IN  IF txt.t = "str"
                    THEN SectionParts(Tail(sections), Append(parts, txt.v))
                    ELSE SectionParts(Tail(sections), parts)
           ELSE IF s.t = "str"
                THEN SectionParts(Tail(sections), Append(parts, s.v))
                ELSE SectionParts(Tail(sections), parts)

\* The length cap of concatenate_text.
MaxTextLen == 200000

\* concatenate_text(item)
concatenate_text(item) ==
  LET parts == TextParts(item, TextKeys, <<>>)
  IN  IF parts.exc # "" THEN parts
      ELSE LET sections == PyGet(item, K_sections)
           IN  IF sections.exc # "" THEN sections
               ELSE LET all == IF sections.val.t = "list"
                               THEN SectionParts(sections.val.v, parts.val)
                               ELSE parts.val
                    IN  Ok(Take(Join(<<"\n", "\n">>, all), MaxTextLen))

----------------------------------------------------------------------------
(* try_load_nlp and extract_with_nlp *)

None == "None"

SCI_MODELS ==
  <<"en_core_sci_sm", "en_core_sci_md", "en_core_sci_scibert", "en_ner_bionlp13cg_md">>

WEB_MODEL == "en_core_web_sm"

\* spacy.load(name) in environment env: the model, or an exception
SpacyLoad(env, name) == IF name \in env.loadable THEN Ok(name) ELSE Raise("OSError")

\* The for loop over the SciSpacy model names, from position i on
RECURSIVE TrySciModels(_, _, _)
TrySciModels(env, i, lg) ==
  IF i > Len(SCI_MODELS) THEN [found |-> FALSE, logs |-> lg]
  ELSE LET lg2 == Append(lg, [msg |-> "Trying to load SciSpacy model", arg |-> SCI_MODELS[i]])
           r == SpacyLoad(env, SCI_MODELS[i])
       IN  IF r.exc = "" THEN [found |-> TRUE, val |-> r.val, logs |-> lg2]
           ELSE TrySciModels(env, i + 1, lg2)

\* try_load_nlp(): the model or None, with what it logged
TryLoadNlpRaises(env) ==
  IF ~env.installed
  THEN [exc |-> "ImportError", logs |-> <<>>]
  ELSE LET sci == TrySciModels(env, 1, <<>>)
       IN  IF sci.found THEN [exc |-> "", val |-> sci.val, logs |-> sci.logs]
           ELSE LET lg == Append(sci.logs,
                            [msg |-> "Falling back to spaCy model", arg |-> WEB_MODEL])
                    r == SpacyLoad(env, WEB_MODEL)
                IN  IF r.exc = "" THEN [exc |-> "", val |-> r.val, logs |-> lg]
                    ELSE [exc |-> r.exc, logs |-> lg]

try_load_nlp(env) ==
  IF ~env.installed
  THEN [exc |-> "", val |-> None,
        logs |-> <<[msg |-> "spaCy not installed. Proceeding without NLP.", arg |-> ""]>>]
  ELSE LET sci == TrySciModels(env, 1, <<>>)
       IN  IF sci.found THEN [exc |-> "", val |-> sci.val, logs |-> sci.logs]
           ELSE LET lg == Append(sci.logs,
                            [msg |-> "Falling back to spaCy model", arg |-> WEB_MODEL])
                    r == SpacyLoad(env, WEB_MODEL)
                IN  IF r.exc = "" THEN [exc |-> "", val |-> r.val, logs |-> lg]
                    ELSE [exc |-> "", val |-> None,
                          logs |-> Append(lg,
                            [msg |-> "spaCy model en_core_web_sm not found. Proceeding without NLP.",
                             arg |-> ""])]

L_ORG == <<"O","R","G">>
L_FAC == <<"F","A","C">>
L_PERSON == <<"P","E","R","S","O","N">>
L_PRODUCT == <<"P","R","O","D","U","C","T">>
L_NORP == <<"N","O","R","P">>
L_GPE == <<"G","P","E">>
L_LOC == <<"L","O","C">>
L_EVENT == <<"E","V","E","N","T">>
L_PHENOMENON == <<"P","H","E","N","O","M","E","N","O","N">>
L_DISEASE == <<"D","I","S","E","A","S","E">>
L_SYMPTOM == <<"S","Y","M","P","T","O","M">>

\* The experiment substrings of the second mapping rule
NLP_EXPERIMENT_WORDS ==
  << <<"e","x","p","e","r","i","m","e","n","t">>,
     <<"s","t","u","d","y">>,
     <<"m","i","s","s","i","o","n">>,
     <<"f","l","i","g","h","t">>,
     <<"s","p","a","c","e","f","l","i","g","h","t">>,
     <<"i","s","s">> >>

\* The if/elif chain with the Experiment rule tested before the Project rule
EntityBucketExperimentFirst(ent) ==
  LET label == Upper(ent.label_)
      val == normalize_label(ent.text)
      low == Lower(val)
  IN  IF label \in {L_PERSON, L_ORG, L_PRODUCT}
         /\ \E i \in 1..Len(NLP_EXPERIMENT_WORDS) : Contains(NLP_EXPERIMENT_WORDS[i], low)
      THEN "Experiment"
      ELSE IF label \in {L_ORG, L_FAC}
              /\ \E i \in 1..Len(PROJECT_TERMS) : Contains(Lower(PROJECT_TERMS[i]), low)
      THEN "Project"
      ELSE IF label \in {L_NORP, L_ORG, L_GPE, L_LOC}
              /\ \E i \in 1..Len(BIO_SYSTEM_TERMS) : Contains(BIO_SYSTEM_TERMS[i], low)
      THEN "BioSystem"
      ELSE IF label \in {L_EVENT, L_PHENOMENON, L_DISEASE, L_SYMPTOM}
              \/ \E i \in 1..Len(EFFECT_TERMS) : Contains(EFFECT_TERMS[i], low)
      THEN "Effect"
      ELSE ""

\* The bucket of one entity: the if/elif chain; "" when no rule applies
EntityBucket(ent) ==
  LET label == Upper(ent.label_)
      val == normalize_label(ent.text)
      low == Lower(val)
  IN  IF label \in {L_ORG, L_FAC}
         /\ \E i \in 1..Len(PROJECT_TERMS) : Contains(Lower(PROJECT_TERMS[i]), low)
      THEN "Project"
      ELSE IF label \in {L_PERSON, L_ORG, L_PRODUCT}
              /\ \E i \in 1..Len(NLP_EXPERIMENT_WORDS) : Contains(NLP_EXPERIMENT_WORDS[i], low)
      THEN "Experiment"
      ELSE IF label \in {L_NORP, L_ORG, L_GPE, L_LOC}
              /\ \E i \in 1..Len(BIO_SYSTEM_TERMS) : Contains(BIO_SYSTEM_TERMS[i], low)
      THEN "BioSystem"
      ELSE IF label \in {L_EVENT, L_PHENOMENON, L_DISEASE, L_SYMPTOM}
              \/ \E i \in 1..Len(EFFECT_TERMS) : Contains(EFFECT_TERMS[i], low)
      THEN "Effect"
      ELSE ""

\* The model never raises in this run
NoRaise == -1

\* The for loop over doc.ents: entity k raises when k = raise_at
RECURSIVE NlpBuckets(_, _, _, _)
NlpBuckets(ents, k, raise_at, buckets) ==
  IF k > Len(ents) \/ k = raise_at THEN buckets
  ELSE LET b == EntityBucket(ents[k])
           val == normalize_label(ents[k].text)
       IN  NlpBuckets(ents, k + 1, raise_at,
             IF b = "" THEN buckets ELSE [buckets EXCEPT ![b] = @ \cup {val}])

\* extract_with_nlp(nlp, text), where run is what the model does on text: the
\* entities it recognises and where (if anywhere) it raises: 0 in nlp(text)
\* itself, k while entity k is read.
extract_with_nlp(model, text, run) ==
  IF model = None THEN EmptyCands
  ELSE IF run.raise_at = 0 THEN EmptyCands
  ELSE NlpBuckets(run.ents, 1, run.raise_at, EmptyCands)

\* What extract_with_nlp logs: "NLP error" when the model raised
extract_with_nlp_logs(model, run) ==
  IF model # None /\ run.raise_at \in 0..Len(run.ents)
  THEN <<[msg |-> "NLP error", arg |-> ""]>>
  ELSE <<>>

\* No merge: the loop over the keys of cands is left out, the heuristic sets
\* are used as they are
MergeCandsSkipped(cands, nlp_cands) == cands

\* A merge that assigns instead of updating: cands[k] = nlp_cands[k] when the
\* model found something of type k
MergeCandsAssign(cands, nlp_cands) ==
  [k \in DOMAIN cands |-> IF nlp_cands[k] # {} THEN nlp_cands[k] ELSE cands[k]]

\* for k in cands: cands[k].update(nlp_cands.get(k, set()))
MergeCands(cands, nlp_cands) ==
  [k \in DOMAIN cands |-> cands[k] \cup nlp_cands[k]]

----------------------------------------------------------------------------
(* add_node and add_edge of build_graph *)

\* The id numbered with len(nodes) instead of len(nodes) + 1
NodeIdZeroBased(n_type, n) ==
  ReplaceChar(Lower(n_type), " ", "_") \o <<"_">> \o IntToStr(n)

\* The id of a new node of type n_type when the node list holds n nodes
NodeId(n_type, n) ==
  ReplaceChar(Lower(n_type), " ", "_") \o <<"_">> \o IntToStr(n + 1)

\* add_node without the lookup in node_index: every call appends a node
add_node_no_lookup(g, n_type, label) ==
  LET key == <<n_type, label>>
      node_id == NodeId(n_type, Len(g.nodes))
      node == [id |-> node_id, type |-> n_type, label |-> label]
  IN  [g |-> [g EXCEPT !.nodes = Append(@, node),
                       !.node_index = [k \in DOMAIN @ \cup {key} |->
                                         IF k = key THEN node_id ELSE @[k]]],
       id |-> node_id]

\* add_node that computes the id before the lookup and returns it in both cases
add_node_fresh_id(g, n_type, label) ==
  LET key == <<n_type, label>>
      node_id == NodeId(n_type, Len(g.nodes))
  IN  IF key \in DOMAIN g.node_index
      THEN [g |-> g, id |-> node_id]
      ELSE LET node == [id |-> node_id, type |-> n_type, label |-> label]
           IN  [g |-> [g EXCEPT !.nodes = Append(@, node),
                                !.node_index = (key :> node_id) @@ @],
                id |-> node_id]

\* add_node that appends the node and does not enter it in node_index
add_node_unindexed(g, n_type, label) ==
  LET key == <<n_type, label>>
  IN  IF key \in DOMAIN g.node_index
      THEN [g |-> g, id |-> g.node_index[key]]
      ELSE LET node_id == NodeId(n_type, Len(g.nodes))
               node == [id |-> node_id, type |-> n_type, label |-> label]
           IN  [g |-> [g EXCEPT !.nodes = Append(@, node)], id |-> node_id]

\* add_node that, for a key already indexed, takes the node out of the list and
\* appends it again at the end
add_node_upsert(g, n_type, label) ==
  LET key == <<n_type, label>>
      node_id == IF key \in DOMAIN g.node_index THEN g.node_index[key]
                 ELSE NodeId(n_type, Len(g.nodes))
      node == [id |-> node_id, type |-> n_type, label |-> label]
      Other(n) == n.id # node_id
  IN  [g |-> [g EXCEPT !.nodes = Append(SelectSeq(@, Other), node),
                       !.node_index = (key :> node_id) @@ @],
       id |-> node_id]

\* add_node(n_type, label) on the stores g = [node_index, nodes, edges]:
\* the stores afterwards and the returned id
add_node(g, n_type, label) ==
  LET key == <<n_type, label>>
  IN  IF key \in DOMAIN g.node_index
      THEN [g |-> g, id |-> g.node_index[key]]
      ELSE LET node_id == NodeId(n_type, Len(g.nodes))
               node == [id |-> node_id, type |-> n_type, label |-> label]
           IN  [g |-> [g EXCEPT !.nodes = Append(@, node),
                                !.node_index = (key :> node_id) @@ @],
                id |-> node_id]

\* add_edge that skips a (source, target, relation) triple the list already holds
add_edge_dedup(g, src, dst, rel) ==
  LET e == [source |-> src, target |-> dst, relation |-> rel]
  IN  IF \E k \in 1..Len(g.edges) : g.edges[k] = e THEN g
      ELSE [g EXCEPT !.edges = Append(@, e)]

\* add_edge(src, dst, rel)
add_edge(g, src, dst, rel) ==
  [g EXCEPT !.edges = Append(@, [source |-> src, target |-> dst, relation |-> rel])]

\* Stores kept at module level and not cleared: an invocation starts with what
\* the previous one left
StaleStores == [node_index |-> node_index, nodes |-> nodes, edges |-> edges]

\* node_index, nodes and edges as build_graph creates them
EmptyStores == [node_index |-> <<>>, nodes |-> <<>>, edges |-> <<>>]

\* for exp in sorted(cands["Experiment"]): add_node, add_edge DESCRIBES, append id
RECURSIVE ExperimentLoop(_, _, _, _)
ExperimentLoop(g, terms, article_id, ids) ==
  IF terms = <<>> THEN [g |-> g, ids |-> ids]
  ELSE LET r == add_node(g, T_Experiment, normalize_label(Head(terms)))
       IN  ExperimentLoop(add_edge(r.g, article_id, r.id, DESCRIBES),
                          Tail(terms), article_id, Append(ids, r.id))

\* for bio in sorted(cands["Biological System"]) and for eff in
\* sorted(cands["Effect"]): add_node, append id
RECURSIVE EntityLoop(_, _, _, _)
EntityLoop(g, n_type, terms, ids) ==
  IF terms = <<>> THEN [g |-> g, ids |-> ids]
  ELSE LET r == add_node(g, n_type, normalize_label(Head(terms)))
       IN  EntityLoop(r.g, n_type, Tail(terms), Append(ids, r.id))

\* The Project loop with the arguments of add_edge in the other order: FUNDS
\* from the Article to the Project
RECURSIVE ProjectLoopSwapped(_, _, _, _)
ProjectLoopSwapped(g, terms, article_id, ids) ==
  IF terms = <<>> THEN [g |-> g, ids |-> ids]
  ELSE LET r == add_node(g, T_Project, normalize_label(Head(terms)))
       IN  ProjectLoopSwapped(add_edge(r.g, article_id, r.id, FUNDS),
                              Tail(terms), article_id, Append(ids, r.id))

\* for proj in sorted(cands["Project"]): add_node, append id, add_edge FUNDS
RECURSIVE ProjectLoop(_, _, _, _)
ProjectLoop(g, terms, article_id, ids) ==
  IF terms = <<>> THEN [g |-> g, ids |-> ids]
  ELSE LET r == add_node(g, T_Project, normalize_label(Head(terms)))
       IN  ProjectLoop(add_edge(r.g, r.id, article_id, FUNDS),
                       Tail(terms), article_id, Append(ids, r.id))

\* for xid in ids: add_edge(eid, xid, rel)
RECURSIVE EdgesFrom(_, _, _, _)
EdgesFrom(g, eid, ids, rel) ==
  IF ids = <<>> THEN g
  ELSE EdgesFrom(add_edge(g, eid, Head(ids), rel), eid, Tail(ids), rel)

\* The link loop with the inner loops copied: OBSERVES runs over bio_ids too
RECURSIVE LinkLoopCopied(_, _, _, _)
LinkLoopCopied(g, exp_ids, bio_ids, eff_ids) ==
  IF exp_ids = <<>> THEN g
  ELSE LinkLoopCopied(EdgesFrom(EdgesFrom(g, Head(exp_ids), bio_ids, INVOLVES),
                                Head(exp_ids), bio_ids, OBSERVES),
                      Tail(exp_ids), bio_ids, eff_ids)

\* The link loop that pairs the experiments with the biological systems and
\* the effects position by position instead of every one with every one
LinkLoopPairwise(g, exp_ids, bio_ids, eff_ids) ==
  LET inv == {k \in 1..Len(exp_ids) : k <= Len(bio_ids)}
      obs == {k \in 1..Len(exp_ids) : k <= Len(eff_ids)}
  IN  [g EXCEPT !.edges =
         @ \o [k \in 1..Cardinality(inv) |->
                 [source |-> exp_ids[k], target |-> bio_ids[k], relation |-> INVOLVES]]
           \o [k \in 1..Cardinality(obs) |->
                 [source |-> exp_ids[k], target |-> eff_ids[k], relation |-> OBSERVES]]]

\* for eid in exp_ids: INVOLVES to every bio id, then OBSERVES to every effect id
RECURSIVE LinkLoop(_, _, _, _)
LinkLoop(g, exp_ids, bio_ids, eff_ids) ==
  IF exp_ids = <<>> THEN g
  ELSE LinkLoop(EdgesFrom(EdgesFrom(g, Head(exp_ids), bio_ids, INVOLVES),
                          Head(exp_ids), eff_ids, OBSERVES),
                Tail(exp_ids), bio_ids, eff_ids)

----------------------------------------------------------------------------
(* read_parsed_jsons *)

\* The for loop with an except branch that appends an empty document
RECURSIVE ReadFilesKeepSlot(_, _, _, _)
ReadFilesKeepSlot(dir, files, data, lg) ==
  IF files = <<>> THEN [data |-> data, logs |-> lg]
  ELSE LET fp == Head(files)
       IN  IF dir[fp] = Unreadable
           THEN ReadFilesKeepSlot(dir, Tail(files), Append(data, JDict(<<>>)),
                                  Append(lg, [msg |-> "Failed to read", arg |-> fp]))
           ELSE ReadFilesKeepSlot(dir, Tail(files), Append(data, dir[fp]), lg)

\* The for loop over the sorted file paths
RECURSIVE ReadFiles(_, _, _, _)
ReadFiles(dir, files, data, lg) ==
  IF files = <<>> THEN [data |-> data, logs |-> lg]
  ELSE LET fp == Head(files)
       IN  IF dir[fp] = Unreadable
           THEN ReadFiles(dir, Tail(files), data,
                          Append(lg, [msg |-> "Failed to read", arg |-> fp]))
           ELSE ReadFiles(dir, Tail(files), Append(data, dir[fp]), lg)

\* glob(os.path.join(parsed_dir, "*.json")): the paths found, in no particular
\* order; a path that is no directory or cannot be listed gives no path and no
\* error
Glob(dir, exists) == IF exists THEN DOMAIN dir ELSE {}

\* read_parsed_jsons that reads the files in the order glob lists them
read_parsed_jsons_unsorted(dir, listing) ==
  ReadFiles(dir, listing, <<>>,
            <<[msg |-> "Found parsed JSON files", arg |-> Len(listing)]>>)

\* read_parsed_jsons(parsed_dir), where listing is the order in which glob
\* lists the files of the directory
read_parsed_jsons(dir, listing) ==
  LET files == Sorted(listing)
  IN  ReadFiles(dir, files, <<>>,
                <<[msg |-> "Found parsed JSON files", arg |-> Len(files)]>>)

----------------------------------------------------------------------------
(* Inputs *)

\* Number of files the input directory may hold
MaxFiles == 2

\* Number of build_graph invocations followed
MaxBuilds == 2

NameList ==
  << <<"1","0",".","j","s","o","n">>,
     <<"2",".","j","s","o","n">>,
     <<"3",".","j","s","o","n">>,
     <<"4",".","j","s","o","n">> >>

FileNames == {NameList[i] : i \in 1..MaxFiles}

\* The two documents of the example scenario
Doc1 ==
  JDict(K_title :> JStr(<<"B","o","n","e"," ","L","o","s","s"," ","i","n"," ","M","i","c","e">>)
     @@ K_abstract :> JStr(<<"M","i","c","r","o","g","r","a","v","i","t","y"," ","e","x","p","o","s","u","r","e"," ","c","a","u","s","e","d"," ","b","o","n","e"," ","l","o","s","s"," ","i","n"," ","m","i","c","e"," ","d","u","r","i","n","g"," ","t","h","e"," ","e","x","p","e","r","i","m","e","n","t",".">>))

Doc2 ==
  JDict(K_title :> JStr(<<"P","l","a","n","t"," ","G","r","o","w","t","h"," ","S","t","u","d","y">>)
     @@ K_abstract :> JStr(<<"T","h","e"," ","e","x","p","e","r","i","m","e","n","t"," ","e","x","a","m","i","n","e","d"," ","a","r","a","b","i","d","o","p","s","i","s"," ","g","r","o","w","t","h"," ","u","n","d","e","r"," ","s","i","m","u","l","a","t","e","d"," ","m","i","c","r","o","g","r","a","v","i","t","y",".">>))

\* A document with no usable title, non-string text fields and a sections list:
\* {"title": 7, "abstract": 5, "summary": "ISS",
\*  "sections": [3, {"text": null, "content": "mice"}, "Task Book"]}
Doc3 ==
  JDict(K_title :> JNum(7)
     @@ K_abstract :> JNum(5)
     @@ K_summary :> JStr(<<"I","S","S">>)
     @@ K_sections :> JList(<< JNum(3),
                              JDict(K_text :> JNull @@ K_content :> JStr(<<"m","i","c","e">>)),
                              JStr(<<"T","a","s","k"," ","B","o","o","k">>) >>))

\* Files whose JSON is not an object: null, 5, "title page", []
NonObjects ==
  { JNull, JNum(5), JStr(<<"t","i","t","l","e"," ","p","a","g","e">>), JList(<<>>) }

\* A document without a title whose text names a biological system and two
\* effects but no experiment: {"content": "Tumor growth in mice"}
Doc4 ==
  JDict(K_content :> JStr(<<"T","u","m","o","r"," ","g","r","o","w","t","h"," ","i","n"," ","m","i","c","e">>))

Documents == {Doc1, Doc2, Doc3, Doc4}

FileContents == {Unreadable} \cup NonObjects \cup Documents

Dirs == UNION {[S -> FileContents] : S \in SUBSET FileNames}

\* No file: what glob finds in an empty directory, and equally under a path
\* that is no directory or cannot be listed (glob reports no error)
NoFiles == <<>>

SpacyEnvs ==
  { [installed |-> FALSE, loadable |-> {}],
    [installed |-> TRUE, loadable |-> {}],
    [installed |-> TRUE, loadable |-> {"en_core_sci_md", WEB_MODEL}] }

\* What a loaded model may do on a text
E_study == [label_ |-> <<"p","e","r","s","o","n">>,
            text |-> <<"A","l","p","h","a"," "," ","s","t","u","d","y">>]
E_taskbook == [label_ |-> L_ORG,
               text |-> <<"N","A","S","A"," ","T","a","s","k"," ","B","o","o","k"," ","m","i","s","s","i","o","n">>]
E_launch == [label_ |-> L_EVENT, text |-> <<"l","a","u","n","c","h">>]
E_mice == [label_ |-> L_GPE, text |-> <<"m","i","c","e">>]
\* Entities whose normalized text is a term the heuristic extractor returns too
E_experiment == [label_ |-> L_PRODUCT, text |-> <<"e","x","p","e","r","i","m","e","n","t">>]
E_book == [label_ |-> L_ORG, text |-> <<"T","a","s","k"," "," ","B","o","o","k">>]

NlpRuns ==
  { [ents |-> <<>>, raise_at |-> 0],
    [ents |-> <<E_study, E_experiment, E_book>>, raise_at |-> NoRaise],
    [ents |-> <<E_taskbook, E_launch>>, raise_at |-> NoRaise],
    [ents |-> <<E_mice, E_study>>, raise_at |-> 2] }

----------------------------------------------------------------------------
(* build_graph as a state machine *)

\* The locals of the loop body. heur keeps what extract_candidates returned
\* (cands before the merge updates it in place), nodes_before and edges_before
\* the lengths of the node list and of the edge list when the body began
NoLoc ==
  [article_id |-> <<>>, text |-> <<>>, cands |-> EmptyCands, nlp_cands |-> EmptyCands,
   heur |-> EmptyCands, nodes_before |-> 0, edges_before |-> 0,
   exp_ids |-> <<>>, bio_ids |-> <<>>, eff_ids |-> <<>>, proj_ids |-> <<>>]

Absent == [exists |-> FALSE]
FileOf(data) == [exists |-> TRUE, data |-> data]

NoCall == [fn |-> "none"]

\* The API process before any request: _load_json has cached nothing and no
\* endpoint has answered
NoEntry == [path |-> ""]
NoResponse == [made |-> FALSE]
NoApi == [cache |-> NoEntry, nodes |-> NoResponse, edges |-> NoResponse,
          stats |-> NoResponse, calls |-> 0]

Stores == [node_index |-> node_index, nodes |-> nodes, edges |-> edges]

SetStores(g) ==
  /\ node_index' = g.node_index
  /\ nodes' = g.nodes
  /\ edges' = g.edges

Init ==
  /\ dir_exists \in BOOLEAN
  /\ parsed_dir \in (IF dir_exists THEN Dirs ELSE {NoFiles})
  /\ spacy_env \in SpacyEnvs
  /\ pc = "idle"
  /\ nlp = None
  /\ items = <<>>
  /\ idx = 0
  /\ node_index = <<>>
  /\ nodes = <<>>
  /\ edges = <<>>
  /\ loc = NoLoc
  /\ nodes_json = Absent
  /\ edges_json = Absent
  /\ logs = <<>>
  /\ builds = 0
  /\ returns = <<>>
  /\ enriched = <<>>
  /\ exc = ""
  /\ merged = <<>>
  /\ call = NoCall
  /\ api = NoApi

\* build_graph is invoked: ensure_dir(out_dir)
StartBuild ==
  /\ pc \in {"idle", "returned"}
  /\ builds < MaxBuilds
  /\ builds' = builds + 1
  /\ pc' = "load_nlp"
  /\ nlp' = None
  /\ items' = <<>>
  /\ idx' = 0
  /\ SetStores(EmptyStores)
  /\ loc' = NoLoc
  /\ logs' = <<>>
  /\ enriched' = <<>>
  /\ exc' = ""
  /\ merged' = <<>>
  /\ UNCHANGED << parsed_dir, dir_exists, spacy_env, nodes_json, edges_json, returns, call, api >>

\* nlp = try_load_nlp()
LoadNlp ==
  /\ pc = "load_nlp"
  /\ LET r == try_load_nlp(spacy_env)
     IN  /\ logs' = logs \o r.logs
         /\ exc' = r.exc
         /\ IF r.exc # ""
            THEN pc' = "raised" /\ nlp' = nlp
            ELSE pc' = "read" /\ nlp' = r.val
  /\ UNCHANGED << parsed_dir, dir_exists, spacy_env, items, idx, node_index, nodes, edges, loc,
                  nodes_json, edges_json, builds, returns, call, api, enriched, merged >>

\* items = read_parsed_jsons(parsed_dir); node_index = {}; nodes = []; edges = []
ReadParsedJsons ==
  /\ pc = "read"
  /\ \E listing \in Orders(Glob(parsed_dir, dir_exists)) :
       \E r \in {read_parsed_jsons(parsed_dir, listing)} :
           /\ items' = r.data
           /\ logs' = logs \o r.logs
  /\ SetStores(EmptyStores)
  /\ idx' = 1
  /\ pc' = "loop"
  /\ UNCHANGED << parsed_dir, dir_exists, spacy_env, nlp, loc, nodes_json, edges_json, builds,
                  returns, call, api, enriched, exc, merged >>

\* The head of the loop body: the Article node, the text, the candidates of the
\* two extractors and their merge
DocBegin ==
  /\ pc = "loop"
  /\ idx <= Len(items)
  /\ LET item == items[idx]
         file_label == <<"A","r","t","i","c","l","e"," ">> \o IntToStr(idx)
     IN  \E lab \in {get_article_label(item, file_label)} :
         IF lab.exc # ""
         THEN /\ pc' = "raised"
              /\ exc' = lab.exc
              /\ UNCHANGED << node_index, nodes, edges, loc, logs, enriched, merged >>
         ELSE LET lg == Append(logs, [msg |-> "Processing", arg |-> lab.val])
              IN  \E a \in {add_node(Stores, T_Article, lab.val)},
                     txt \in {concatenate_text(item)} :
                  /\ SetStores(a.g)
                  /\ exc' = txt.exc
                  /\ IF txt.exc # ""
                     THEN pc' = "raised" /\ loc' = loc /\ enriched' = enriched /\ logs' = lg
                          /\ merged' = merged
                     ELSE \E cands \in {extract_candidates(txt.val)}, run \in NlpRuns :
                            LET nlp_cands == extract_with_nlp(nlp, txt.val, run)
                            IN  /\ logs' = lg \o extract_with_nlp_logs(nlp, run)
                                /\ loc' = [NoLoc EXCEPT
                                             !.article_id = a.id,
                                             !.text = txt.val,
                                             !.heur = cands,
                                             !.nodes_before = Len(nodes),
                                             !.edges_before = Len(edges),
                                             !.nlp_cands = nlp_cands,
                                             !.cands = MergeCands(cands, nlp_cands)]
                                /\ enriched' = Append(enriched, nlp_cands)
                                /\ merged' = Append(merged, MergeCands(cands, nlp_cands))
                                /\ pc' = "experiments"
  /\ UNCHANGED << parsed_dir, dir_exists, spacy_env, nlp, items, idx, nodes_json, edges_json,
                  builds, returns, call, api >>

\* for exp in sorted(cands["Experiment"]): ...
AddExperiments ==
  /\ pc = "experiments"
  /\ \E order \in Orders(loc.cands.Experiment) :
       \E r \in {ExperimentLoop(Stores, Sorted(order), loc.article_id, <<>>)} :
           /\ SetStores(r.g)
           /\ loc' = [loc EXCEPT !.exp_ids = r.ids]
  /\ pc' = "bio"
  /\ UNCHANGED << parsed_dir, dir_exists, spacy_env, nlp, items, idx, nodes_json, edges_json,
                  logs, builds, returns, call, api, enriched, exc, merged >>

\* for bio in sorted(cands["Biological System"]): ...
AddBioSystems ==
  /\ pc = "bio"
  /\ \E order \in Orders(loc.cands.BioSystem) :
       \E r \in {EntityLoop(Stores, T_BioSystem, Sorted(order), <<>>)} :
           /\ SetStores(r.g)
           /\ loc' = [loc EXCEPT !.bio_ids = r.ids]
  /\ pc' = "effects"
  /\ UNCHANGED << parsed_dir, dir_exists, spacy_env, nlp, items, idx, nodes_json, edges_json,
                  logs, builds, returns, call, api, enriched, exc, merged >>

\* for eff in sorted(cands["Effect"]): ...
AddEffects ==
  /\ pc = "effects"
  /\ \E order \in Orders(loc.cands.Effect) :
       \E r \in {EntityLoop(Stores, T_Effect, Sorted(order), <<>>)} :
           /\ SetStores(r.g)
           /\ loc' = [loc EXCEPT !.eff_ids = r.ids]
  /\ pc' = "projects"
  /\ UNCHANGED << parsed_dir, dir_exists, spacy_env, nlp, items, idx, nodes_json, edges_json,
                  logs, builds, returns, call, api, enriched, exc, merged >>

\* for proj in sorted(cands["Project"]): ...
AddProjects ==
  /\ pc = "projects"
  /\ \E order \in Orders(loc.cands.Project) :
       \E r \in {ProjectLoop(Stores, Sorted(order), loc.article_id, <<>>)} :
           /\ SetStores(r.g)
           /\ loc' = [loc EXCEPT !.proj_ids = r.ids]
  /\ pc' = "link"
  /\ UNCHANGED << parsed_dir, dir_exists, spacy_env, nlp, items, idx, nodes_json, edges_json,
                  logs, builds, returns, call, api, enriched, exc, merged >>

\* The links of a document followed by a call of try_load_nlp: the model is
\* loaded again for the next document
LinkExperimentsReloading ==
  /\ pc = "link"
  /\ \E g \in {LinkLoop(Stores, loc.exp_ids, loc.bio_ids, loc.eff_ids)} : SetStores(g)
  /\ \E r \in {try_load_nlp(spacy_env)} :
       /\ nlp' = r.val
       /\ logs' = logs \o r.logs
  /\ idx' = idx + 1
  /\ pc' = "loop"
  /\ UNCHANGED << parsed_dir, dir_exists, spacy_env, items, loc, nodes_json, edges_json,
                  builds, returns, call, api, enriched, exc, merged >>

\* The links of a document followed by a dump of both lists: the output is
\* rewritten after every document
LinkExperimentsSaving ==
  /\ pc = "link"
  /\ \E g \in {LinkLoop(Stores, loc.exp_ids, loc.bio_ids, loc.eff_ids)} :
       /\ SetStores(g)
       /\ nodes_json' = FileOf(g.nodes)
       /\ edges_json' = FileOf(g.edges)
  /\ idx' = idx + 1
  /\ pc' = "loop"
  /\ UNCHANGED << parsed_dir, dir_exists, spacy_env, nlp, items, loc,
                  logs, builds, returns, call, api, enriched, exc, merged >>

\* The many-to-many links, and the step to the next document
LinkExperiments ==
  /\ pc = "link"
  /\ \E g \in {LinkLoop(Stores, loc.exp_ids, loc.bio_ids, loc.eff_ids)} : SetStores(g)
  /\ idx' = idx + 1
  /\ pc' = "loop"
  /\ UNCHANGED << parsed_dir, dir_exists, spacy_env, nlp, items, loc, nodes_json, edges_json,
                  logs, builds, returns, call, api, enriched, exc, merged >>

\* What a write of an output file can do: succeed; fail in open(path, "w"),
\* which leaves the file as it was; or fail in json.dump after open truncated
\* the file, which leaves an incomplete file
WriteOutcomes == {"ok", "open_fails", "dump_fails"}

\* An output file that open(path, "w") truncated and json.dump did not complete
Truncated == [exists |-> TRUE, data |-> <<>>, truncated |-> TRUE]

\* with open(path, "w") as f: json.dump(data, f): the file afterwards
WriteFile(old, data, outcome) ==
  CASE outcome = "ok" -> FileOf(data)
    [] outcome = "open_fails" -> old
    [] outcome = "dump_fails" -> Truncated

\* The exception a failed write raises: the OSError of open or of the write
WriteError(outcome) == IF outcome = "ok" THEN "" ELSE "OSError"

\* After the last document: json.dump(nodes) to nodes.json
SaveNodes ==
  /\ pc = "loop"
  /\ idx > Len(items)
  /\ \E outcome \in WriteOutcomes :
       /\ nodes_json' = WriteFile(nodes_json, nodes, outcome)
       /\ exc' = WriteError(outcome)
       /\ pc' = IF outcome = "ok" THEN "save_edges" ELSE "raised"
  /\ UNCHANGED << parsed_dir, dir_exists, spacy_env, nlp, items, idx, node_index, nodes, edges,
                  loc, edges_json, logs, builds, returns, call, api, enriched, merged >>

\* The end of build_graph without the second dump: edges.json stays as it was
SaveEdgesSkipped ==
  /\ pc = "save_edges"
  /\ exc' = ""
  /\ logs' = logs \o << [msg |-> "Saved nodes", arg |-> Len(nodes)],
                        [msg |-> "Saved edges", arg |-> Len(edges)] >>
  /\ returns' = Append(returns,
                  [parsed_dir |-> parsed_dir, nlp |-> nlp, items |-> items,
                   enriched |-> enriched, nodes |-> nodes, edges |-> edges,
                   nodes_json |-> nodes_json, edges_json |-> edges_json,
                   logs |-> logs'])
  /\ pc' = "returned"
  /\ UNCHANGED << parsed_dir, dir_exists, spacy_env, nlp, items, idx, node_index, nodes, edges,
                  loc, nodes_json, edges_json, builds, call, api, enriched, merged >>

\* json.dump(edges) to edges.json, the two log lines, return nodes, edges
SaveEdges ==
  /\ pc = "save_edges"
  /\ \E outcome \in WriteOutcomes :
       /\ edges_json' = WriteFile(edges_json, edges, outcome)
       /\ exc' = WriteError(outcome)
       /\ IF outcome = "ok"
          THEN /\ logs' = logs \o << [msg |-> "Saved nodes", arg |-> Len(nodes)],
                                     [msg |-> "Saved edges", arg |-> Len(edges)] >>
               /\ returns' = Append(returns,
                               [parsed_dir |-> parsed_dir, nlp |-> nlp, items |-> items,
                                enriched |-> enriched, nodes |-> nodes, edges |-> edges,
                                nodes_json |-> nodes_json, edges_json |-> edges_json',
                                logs |-> logs'])
               /\ pc' = "returned"
          ELSE /\ pc' = "raised"
               /\ UNCHANGED << logs, returns >>
  /\ UNCHANGED << parsed_dir, dir_exists, spacy_env, nlp, items, idx, node_index, nodes, edges,
                  loc, nodes_json, builds, call, api, enriched, merged >>

\* Between two invocations the environment changes one thing: a file of the
\* input directory becomes unreadable (a new one, or an existing one), a file is
\* removed, a document is overwritten with JSON that is no object, the spaCy
\* installation changes, or the input directory is removed
Reconfigure ==
  /\ pc = "returned"
  /\ builds < MaxBuilds
  /\ \/ \E f \in FileNames :
          /\ dir_exists
          /\ (IF f \in DOMAIN parsed_dir THEN parsed_dir[f] # Unreadable ELSE TRUE)
          /\ parsed_dir' = [x \in DOMAIN parsed_dir \cup {f} |->
                              IF x = f THEN Unreadable ELSE parsed_dir[x]]
          /\ UNCHANGED << spacy_env, dir_exists >>
     \/ \E f \in DOMAIN parsed_dir :
          /\ parsed_dir' = [x \in DOMAIN parsed_dir \ {f} |-> parsed_dir[x]]
          /\ UNCHANGED << spacy_env, dir_exists >>
     \/ \E f \in DOMAIN parsed_dir :
          /\ parsed_dir[f].t = "dict"
          /\ parsed_dir' = [parsed_dir EXCEPT ![f] = JNull]
          /\ UNCHANGED << spacy_env, dir_exists >>
     \/ \E e \in SpacyEnvs \ {spacy_env} :
          /\ spacy_env' = e
          /\ UNCHANGED << parsed_dir, dir_exists >>
     \/ /\ dir_exists
        /\ dir_exists' = FALSE
        /\ parsed_dir' = NoFiles
        /\ spacy_env' = spacy_env
  /\ pc' = "idle"
  /\ UNCHANGED << nlp, items, idx, node_index, nodes, edges, loc, nodes_json,
                  edges_json, logs, builds, returns, call, api, enriched, exc, merged >>

Next ==
  \/ StartBuild
  \/ LoadNlp
  \/ ReadParsedJsons
  \/ DocBegin
  \/ AddExperiments
  \/ AddBioSystems
  \/ AddEffects
  \/ AddProjects
  \/ LinkExperiments
  \/ SaveNodes
  \/ SaveEdges
  \/ Reconfigure

Spec == Init /\ [][Next]_vars

----------------------------------------------------------------------------
(* A single call of extract_candidates on a text *)

\* Number of phrases a text is made of
MaxWords == 2

Phrases ==
  { <<"D","N","A"," ","d","a","m","a","g","e">>,
    <<"d","n","a"," ","D","A","M","A","G","E">>,
    <<"I","S","S">>,
    <<"M","i","c","e">>,
    <<"T","a","s","k","\n","B","o","o","k">>,
    <<"t","a","s","k"," ","b","o","o","k">>,
    <<"b","o","n","e">>,
    <<"l","o","s","s">>,
    <<"T","u","m","o","r",".">> }

\* The texts of up to MaxWords phrases, joined by single spaces
Texts == UNION { {Join(<<" ">>, ws) : ws \in [1..n -> Phrases]} : n \in 0..MaxWords }

\* The labels and the texts of the entities a model recognises in the calls of
\* extract_with_nlp: labels of every rule, in upper and in lower case, and one
\* of no rule; texts that satisfy several rules, one rule or none
EntLabels ==
  { L_ORG, L_FAC, L_PERSON, L_PRODUCT, L_NORP, L_GPE, L_LOC, L_EVENT, L_DISEASE,
    <<"o","r","g">>, <<"D","A","T","E">> }

EntTexts ==
  { <<"N","A","S","A"," ","T","a","s","k"," ","B","o","o","k"," ","m","i","s","s","i","o","n">>,
    <<"I","S","S"," ","m","i","c","e">>,
    <<"m","i","c","e"," ","g","r","o","w","t","h">>,
    <<"b","o","n","e"," "," ","l","o","s","s">>,
    <<"A","l","i","c","e">>,
    <<"D","N","A"," ","d","a","m","a","g","e">>,
    <<"H","R","P">> }

Entities == {[label_ |-> l, text |-> t] : l \in EntLabels, t \in EntTexts}

\* The runs of the model in the calls: one entity and no exception, and the
\* runs of the builds
CallRuns == {[ents |-> <<e>>, raise_at |-> NoRaise] : e \in Entities} \cup NlpRuns

NlpCalls ==
  {[fn |-> "extract_with_nlp", model |-> m, text |-> <<>>, run |-> r, done |-> FALSE] :
     m \in {None, WEB_MODEL}, r \in CallRuns}

InitExtract ==
  /\ parsed_dir = NoFiles
  /\ dir_exists = TRUE
  /\ spacy_env \in {[installed |-> FALSE, loadable |-> {}]}
  /\ pc = "idle"
  /\ nlp = None
  /\ items = <<>>
  /\ idx = 0
  /\ node_index = <<>>
  /\ nodes = <<>>
  /\ edges = <<>>
  /\ loc = NoLoc
  /\ nodes_json = Absent
  /\ edges_json = Absent
  /\ logs = <<>>
  /\ builds = 0
  /\ returns = <<>>
  /\ enriched = <<>>
  /\ exc = ""
  /\ merged = <<>>
  /\ call \in {[fn |-> "extract_candidates", text |-> t, done |-> FALSE] : t \in Texts}
             \cup NlpCalls
  /\ api = NoApi

CallExtractCandidates ==
  /\ call.fn = "extract_candidates"
  /\ ~call.done
  /\ call' = [fn |-> call.fn, text |-> call.text, done |-> TRUE,
              ret |-> extract_candidates(call.text)]
  /\ UNCHANGED << parsed_dir, dir_exists, spacy_env, pc, nlp, items, idx, node_index, nodes,
                  edges, loc, nodes_json, edges_json, logs, builds, returns, enriched, exc, merged, api >>

\* One call of extract_with_nlp: its buckets, and what it logs
CallExtractWithNlp ==
  /\ call.fn = "extract_with_nlp"
  /\ ~call.done
  /\ call' = [fn |-> call.fn, model |-> call.model, text |-> call.text, run |-> call.run,
              done |-> TRUE,
              ret |-> extract_with_nlp(call.model, call.text, call.run)]
  /\ logs' = logs \o extract_with_nlp_logs(call.model, call.run)
  /\ UNCHANGED << parsed_dir, dir_exists, spacy_env, pc, nlp, items, idx, node_index, nodes,
                  edges, loc, nodes_json, edges_json, builds, returns, enriched, exc, merged, api >>

NextExtract == CallExtractCandidates \/ CallExtractWithNlp

SpecExtract == InitExtract /\ [][NextExtract]_vars

----------------------------------------------------------------------------
(* Builds over documents whose titles are longer than the label cap *)

\* n times the character c
RECURSIVE Repeat(_, _)
Repeat(c, n) ==
  IF n = 0 THEN <<>>
  ELSE IF n = 1 THEN <<c>>
  ELSE Repeat(c, n \div 2) \o Repeat(c, n - (n \div 2))

\* A title whose character number MaxLabelLen is a space: the cut of
\* normalize_label falls right after it
TitleCutAtSpace == Repeat("x", MaxLabelLen - 1) \o <<" ", "y", "z">>

\* A title of the same length whose cut falls inside a word
TitleCutInWord == Repeat("x", MaxLabelLen - 3) \o <<" ", "w", "o", "r", "d", "s">>

DocLongA ==
  JDict(K_title :> JStr(TitleCutAtSpace)
     @@ K_abstract :> JStr(<<"I","S","S"," ","m","i","c","e">>))

DocLongB ==
  JDict(K_title :> JStr(TitleCutInWord)
     @@ K_abstract :> JStr(<<"t","u","m","o","r"," ","s","t","u","d","y">>))

LongTitleDirs == UNION {[S -> {DocLongA, DocLongB}] : S \in SUBSET FileNames}

InitLongTitles ==
  /\ dir_exists = TRUE
  /\ parsed_dir \in LongTitleDirs
  /\ spacy_env \in SpacyEnvs
  /\ pc = "idle"
  /\ nlp = None
  /\ items = <<>>
  /\ idx = 0
  /\ node_index = <<>>
  /\ nodes = <<>>
  /\ edges = <<>>
  /\ loc = NoLoc
  /\ nodes_json = Absent
  /\ edges_json = Absent
  /\ logs = <<>>
  /\ builds = 0
  /\ returns = <<>>
  /\ enriched = <<>>
  /\ exc = ""
  /\ merged = <<>>
  /\ call = NoCall
  /\ api = NoApi

SpecLongTitles == InitLongTitles /\ [][Next]_vars

----------------------------------------------------------------------------
(* Builds over documents with and without usable title fields *)

\* {"title": "  ", "article_title": " Plant  Growth ", "paper_title": "Other",
\*  "abstract": "mice study"}
DocTitleA ==
  JDict(K_title :> JStr(<<" "," ">>)
     @@ K_article_title :> JStr(<<" ","P","l","a","n","t"," "," ","G","r","o","w","t","h"," ">>)
     @@ K_paper_title :> JStr(<<"O","t","h","e","r">>)
     @@ K_abstract :> JStr(<<"m","i","c","e"," ","s","t","u","d","y">>))

\* {"title": 7, "article_title": null, "paper_title": "Bone\tloss", "abstract": "ISS"}
DocTitleB ==
  JDict(K_title :> JNum(7)
     @@ K_article_title :> JNull
     @@ K_paper_title :> JStr(<<"B","o","n","e","\t","l","o","s","s">>)
     @@ K_abstract :> JStr(<<"I","S","S">>))

\* {"title": "", "paper_title": ["x"], "abstract": "mice"}
DocTitleC ==
  JDict(K_title :> JStr(<<>>)
     @@ K_paper_title :> JList(<<JStr(<<"x">>)>>)
     @@ K_abstract :> JStr(<<"m","i","c","e">>))

\* {"title": "Other", "article_title": "Plant Growth", "abstract": "tumor study"}
DocTitleD ==
  JDict(K_title :> JStr(<<"O","t","h","e","r">>)
     @@ K_article_title :> JStr(<<"P","l","a","n","t"," ","G","r","o","w","t","h">>)
     @@ K_abstract :> JStr(<<"t","u","m","o","r"," ","s","t","u","d","y">>))

TitleDirs ==
  UNION {[S -> {Unreadable, DocTitleA, DocTitleB, DocTitleC, DocTitleD}] : S \in SUBSET FileNames}

InitTitles ==
  /\ dir_exists = TRUE
  /\ parsed_dir \in TitleDirs
  /\ spacy_env \in SpacyEnvs
  /\ pc = "idle"
  /\ nlp = None
  /\ items = <<>>
  /\ idx = 0
  /\ node_index = <<>>
  /\ nodes = <<>>
  /\ edges = <<>>
  /\ loc = NoLoc
  /\ nodes_json = Absent
  /\ edges_json = Absent
  /\ logs = <<>>
  /\ builds = 0
  /\ returns = <<>>
  /\ enriched = <<>>
  /\ exc = ""
  /\ merged = <<>>
  /\ call = NoCall
  /\ api = NoApi

SpecTitles == InitTitles /\ [][Next]_vars

----------------------------------------------------------------------------
(* Builds over a document none of whose text fields is a string *)

\* {"title": "Bad", "abstract": 5, "content": null, "sections": 3}
DocNonString ==
  JDict(K_title :> JStr(<<"B","a","d">>)
     @@ K_abstract :> JNum(5)
     @@ K_content :> JNull
     @@ K_sections :> JNum(3))

NonStringDirs == UNION {[S -> {Doc1, DocNonString}] : S \in SUBSET FileNames}

InitNonString ==
  /\ dir_exists = TRUE
  /\ parsed_dir \in NonStringDirs
  /\ spacy_env \in SpacyEnvs
  /\ pc = "idle"
  /\ nlp = None
  /\ items = <<>>
  /\ idx = 0
  /\ node_index = <<>>
  /\ nodes = <<>>
  /\ edges = <<>>
  /\ loc = NoLoc
  /\ nodes_json = Absent
  /\ edges_json = Absent
  /\ logs = <<>>
  /\ builds = 0
  /\ returns = <<>>
  /\ enriched = <<>>
  /\ exc = ""
  /\ merged = <<>>
  /\ call = NoCall
  /\ api = NoApi

SpecNonString == InitNonString /\ [][Next]_vars

----------------------------------------------------------------------------
(* Properties *)

Ids(ns) == {ns[i].id : i \in 1..Len(ns)}

\* The positions of the node list that hold a node of this type and label
Positions(ns, n_type, label) ==
  {i \in 1..Len(ns) : ns[i].type = n_type /\ ns[i].label = label}

UniqueKeys(ns) ==
  \A i, j \in 1..Len(ns) :
    (ns[i].type = ns[j].type /\ ns[i].label = ns[j].label) => i = j

\* The node lists and edge lists that were written or returned
Outputs ==
  {[nodes |-> nodes, edges |-> edges]}
    \cup {[nodes |-> returns[i].nodes, edges |-> returns[i].edges] : i \in 1..Len(returns)}
    \cup {[nodes |-> returns[i].nodes_json.data, edges |-> returns[i].edges_json.data] :
            i \in 1..Len(returns)}

\* The ids a document's loop has collected so far
DocIds ==
  Range(loc.exp_ids) \cup Range(loc.bio_ids) \cup Range(loc.eff_ids)
    \cup Range(loc.proj_ids)

\* C1. Dedup invariant: the node list never holds two nodes with the same
\* (type, label), during a build, in what it returns and in nodes.json; the
\* ids a document collects for its candidates are ids of nodes of the list, so
\* a repeated mention reuses the node of the first mention.
C1_DedupInvariant ==
  /\ \A o \in Outputs : UniqueKeys(o.nodes)
  /\ nodes_json.exists => UniqueKeys(nodes_json.data)
  /\ DocIds \subseteq Ids(nodes)

\* A later document mentions an Experiment term again: the id it collected is
\* the id of a node that precedes the document's own Article node.
C1_Witness ==
  /\ pc = "link"
  /\ idx >= 2
  /\ \E k \in 1..Len(loc.exp_ids), i, j \in 1..Len(nodes) :
       /\ nodes[i].id = loc.exp_ids[k]
       /\ nodes[j].id = loc.article_id
       /\ i < j

\* C2. No dangling edges: in every state of a build, in what a build returns
\* and in the two files it wrote, the source and the target of every edge are
\* ids of nodes of the node list.
C2_NoDanglingEdges ==
  \A o \in Outputs :
    \A k \in 1..Len(o.edges) :
      o.edges[k].source \in Ids(o.nodes) /\ o.edges[k].target \in Ids(o.nodes)

\* A build over two documents has returned a graph with edges to a reused node.
C2_Witness ==
  /\ pc = "returned"
  /\ Len(items) = 2
  /\ \E k, m \in 1..Len(edges) :
       k # m /\ edges[k].target = edges[m].target /\ edges[k].source # edges[m].source

\* C3. Determinism: two builds over the same input directory, both without an
\* enrichment model, return the same node list and the same edge list and write
\* the same two files.
C3_Determinism ==
  \A i, j \in 1..Len(returns) :
    (/\ returns[i].parsed_dir = returns[j].parsed_dir
     /\ returns[i].nlp = None
     /\ returns[j].nlp = None)
    => /\ returns[i].nodes = returns[j].nodes
       /\ returns[i].edges = returns[j].edges
       /\ returns[i].nodes_json = returns[j].nodes_json
       /\ returns[i].edges_json = returns[j].edges_json

\* Two builds without a model over the same two documents have returned.
C3_Witness ==
  /\ Len(returns) = 2
  /\ returns[1].parsed_dir = returns[2].parsed_dir
  /\ returns[1].nlp = None
  /\ returns[2].nlp = None
  /\ Len(returns[2].items) = 2
  /\ Len(returns[2].edges) > 2

\* The (type, label) of the node with this id
KeyOf(ns, id) ==
  LET i == CHOOSE k \in 1..Len(ns) : ns[k].id = id
  IN  <<ns[i].type, ns[i].label>>

NodeKeys(ns) == {<<ns[i].type, ns[i].label>> : i \in 1..Len(ns)}

\* The edges with their endpoints named by (type, label) instead of by id
EdgeKeys(ns, es) ==
  {<<KeyOf(ns, es[k].source), KeyOf(ns, es[k].target), es[k].relation>> :
     k \in 1..Len(es)}

\* Build i ran without a model and build j with one, over the same directory
Degraded(i, j) ==
  /\ returns[i].parsed_dir = returns[j].parsed_dir
  /\ returns[i].nlp = None
  /\ returns[j].nlp # None

\* C4 as stated. Graceful degradation: for the same documents, the node
\* records {id, type, label} and the edge records {source, target, relation}
\* written without a model are a subset of those written with a model.
C4_SubsetOfRecords ==
  \A i, j \in 1..Len(returns) :
    Degraded(i, j)
    => /\ Range(returns[i].nodes_json.data) \subseteq Range(returns[j].nodes_json.data)
       /\ Range(returns[i].edges_json.data) \subseteq Range(returns[j].edges_json.data)

\* C4 as amended. Graceful degradation up to ids: for the same documents, the
\* (type, label) pairs of the nodes written without a model are a subset of
\* those written with a model, and so are the edges taken as (source's (type,
\* label), target's (type, label), relation); the ids may differ.
C4_SubsetUpToIds ==
  \A i, j \in 1..Len(returns) :
    Degraded(i, j)
    => /\ NodeKeys(returns[i].nodes_json.data) \subseteq NodeKeys(returns[j].nodes_json.data)
       /\ EdgeKeys(returns[i].nodes_json.data, returns[i].edges_json.data)
            \subseteq EdgeKeys(returns[j].nodes_json.data, returns[j].edges_json.data)

\* A build without a model and a build with one have returned for the same
\* documents, and the model contributed nodes and edges.
C4_Witness ==
  \E i, j \in 1..Len(returns) :
    /\ Degraded(i, j)
    /\ returns[i].nodes # <<>>
    /\ Len(returns[j].nodes) > Len(returns[i].nodes)
    /\ Len(returns[j].edges) > Len(returns[i].edges)

\* Directory d1 is directory d2 with one more file, f, that cannot be read
OneMoreUnreadable(d1, d2, f) ==
  /\ f \in DOMAIN d1
  /\ f \notin DOMAIN d2
  /\ d1[f] = Unreadable
  /\ DOMAIN d1 = DOMAIN d2 \cup {f}
  /\ \A x \in DOMAIN d2 : d1[x] = d2[x]

HasLog(lg, msg, arg) ==
  \E k \in 1..Len(lg) : lg[k].msg = msg /\ lg[k].arg = arg

\* C5. Skip on malformed input: a build over a batch plus one unreadable file,
\* at any position of the file order, returns the node list and the edge list
\* (ids and Article <n> labels included) of the build over the batch alone,
\* the enrichment of the documents being the same, and logs the failure to
\* read that file.
C5_SkipUnreadable ==
  \A i, j \in 1..Len(returns) :
    \A f \in FileNames :
      (/\ OneMoreUnreadable(returns[i].parsed_dir, returns[j].parsed_dir, f)
       /\ returns[i].nlp = returns[j].nlp
       /\ (returns[i].nlp # None => returns[i].enriched = returns[j].enriched))
      => /\ returns[i].nodes = returns[j].nodes
         /\ returns[i].edges = returns[j].edges
         /\ returns[i].nodes_json = returns[j].nodes_json
         /\ returns[i].edges_json = returns[j].edges_json
         /\ HasLog(returns[i].logs, "Failed to read", f)

\* Two builds have returned, one over a batch whose first file in the file
\* order is unreadable, the other over the batch without it; the document that
\* follows has no title and is labelled Article 1.
C5_Witness ==
  \E i, j \in 1..Len(returns) :
    /\ OneMoreUnreadable(returns[i].parsed_dir, returns[j].parsed_dir, NameList[1])
    /\ returns[i].enriched = returns[j].enriched
    /\ Positions(returns[i].nodes, T_Article, <<"A","r","t","i","c","l","e"," ","1">>) # {}

\* C6 as stated. No single document aborts the build: with a file whose JSON
\* parses but is not a well-formed document (the top-level value is not an
\* object, or its text fields are not strings), build_graph does not raise.
C6_MalformedNeverAborts ==
  (\E f \in DOMAIN parsed_dir : parsed_dir[f] \in NonObjects \cup {Doc3})
  => pc # "raised"

\* The slug of each node type: lower case, spaces replaced by underscores
SlugOf(n_type) ==
  CASE n_type = T_Article -> <<"a","r","t","i","c","l","e">>
    [] n_type = T_Experiment -> <<"e","x","p","e","r","i","m","e","n","t">>
    [] n_type = T_Project -> <<"p","r","o","j","e","c","t">>
    [] n_type = T_BioSystem ->
         <<"b","i","o","l","o","g","i","c","a","l","_","s","y","s","t","e","m">>
    [] n_type = T_Effect -> <<"e","f","f","e","c","t">>

\* C7 as stated. Ids are numbered per type: the n-th node of type T in the
\* node list has the id <slug(T)>_<n>.
C7_NumberedPerType ==
  \A i \in 1..Len(nodes) :
    nodes[i].id = SlugOf(nodes[i].type) \o <<"_">>
                    \o IntToStr(Cardinality({j \in 1..i : nodes[j].type = nodes[i].type}))

\* C7 as amended. Ids are numbered over the whole node list: the node at
\* 1-based position n of the node list, whatever its type T, has the id
\* <slug(T)>_<n>, n counting the nodes of all types.
C7_NumberedByPosition ==
  \A o \in Outputs :
    \A i \in 1..Len(o.nodes) :
      o.nodes[i].id = SlugOf(o.nodes[i].type) \o <<"_">> \o IntToStr(i)

\* A node list of at least ten nodes with a Biological System node that is not
\* the first of the list.
C7_Witness ==
  /\ Len(nodes) >= 10
  /\ \E i \in 2..Len(nodes) : nodes[i].type = T_BioSystem

\* The directory of the example scenario: doc1 and doc2, in this file order
ExampleDir == (NameList[1] :> Doc1) @@ (NameList[2] :> Doc2)

L_BoneLossInMice == <<"B","o","n","e"," ","L","o","s","s"," ","i","n"," ","M","i","c","e">>
L_PlantGrowthStudy == <<"P","l","a","n","t"," ","G","r","o","w","t","h"," ","S","t","u","d","y">>
L_experiment == <<"e","x","p","e","r","i","m","e","n","t">>
L_mice == <<"m","i","c","e">>
L_arabidopsis == <<"a","r","a","b","i","d","o","p","s","i","s">>
L_bone_loss == <<"b","o","n","e"," ","l","o","s","s">>

\* The number of edges of relation rel from a node (st, sl) to a node (tt, tl)
EdgeCount(ns, es, st, sl, rel, tt, tl) ==
  LET sources == {ns[i].id : i \in Positions(ns, st, sl)}
      targets == {ns[i].id : i \in Positions(ns, tt, tl)}
  IN  Cardinality({k \in 1..Len(es) :
        /\ es[k].relation = rel
        /\ es[k].source \in sources
        /\ es[k].target \in targets})

\* C8. Example scenario: the build of doc1 and doc2 with no model yields the
\* two Article nodes, one shared Experiment("experiment") node, Biological
\* System mice and arabidopsis and Effect bone loss; DESCRIBES from each
\* Article to the shared Experiment; INVOLVES from it to mice, contributed by
\* doc1, and to arabidopsis, contributed by doc2; and exactly one OBSERVES edge
\* from it to bone loss, contributed by doc1.
C8_ExampleScenario ==
  (parsed_dir = ExampleDir /\ nlp = None)
  => /\ (pc = "loop" /\ idx = 2)
        => /\ EdgeCount(nodes, edges, T_Experiment, L_experiment, INVOLVES, T_BioSystem, L_mice) = 1
           /\ EdgeCount(nodes, edges, T_Experiment, L_experiment, INVOLVES, T_BioSystem, L_arabidopsis) = 0
           /\ EdgeCount(nodes, edges, T_Experiment, L_experiment, OBSERVES, T_Effect, L_bone_loss) = 1
     /\ pc = "returned"
        => /\ Cardinality(Positions(nodes_json.data, T_Article, L_BoneLossInMice)) = 1
           /\ Cardinality(Positions(nodes_json.data, T_Article, L_PlantGrowthStudy)) = 1
           /\ Cardinality(Positions(nodes_json.data, T_Experiment, L_experiment)) = 1
           /\ Cardinality(Positions(nodes_json.data, T_BioSystem, L_mice)) = 1
           /\ Cardinality(Positions(nodes_json.data, T_BioSystem, L_arabidopsis)) = 1
           /\ Cardinality(Positions(nodes_json.data, T_Effect, L_bone_loss)) = 1
           /\ EdgeCount(nodes_json.data, edges_json.data, T_Article, L_BoneLossInMice,
                        DESCRIBES, T_Experiment, L_experiment) = 1
           /\ EdgeCount(nodes_json.data, edges_json.data, T_Article, L_PlantGrowthStudy,
                        DESCRIBES, T_Experiment, L_experiment) = 1
           /\ EdgeCount(nodes_json.data, edges_json.data, T_Experiment, L_experiment,
                        INVOLVES, T_BioSystem, L_mice) = 1
           /\ EdgeCount(nodes_json.data, edges_json.data, T_Experiment, L_experiment,
                        INVOLVES, T_BioSystem, L_arabidopsis) = 1
           /\ EdgeCount(nodes_json.data, edges_json.data, T_Experiment, L_experiment,
                        OBSERVES, T_Effect, L_bone_loss) = 1

\* The build of the example directory with no model has returned.
C8_Witness ==
  /\ parsed_dir = ExampleDir
  /\ nlp = None
  /\ pc = "returned"
  /\ Len(edges_json.data) > 0

\* C9 as stated. extract_candidates matches case-insensitively and returns
\* dictionary spellings: for each of the four types the returned set is the
\* set of the terms T of that dictionary whose lower-cased spelling is a
\* substring of the lower-cased text, and an empty text yields four empty sets.
C9_CaseInsensitiveAllTerms ==
  (call.fn = "extract_candidates" /\ call.done)
  => LET low == Lower(call.text)
         Matching(terms) ==
           {terms[i] : i \in {j \in 1..Len(terms) : Contains(Lower(terms[j]), low)}}
     IN  /\ call.ret.BioSystem = Matching(BIO_SYSTEM_TERMS)
         /\ call.ret.Effect = Matching(EFFECT_TERMS)
         /\ call.ret.Experiment = Matching(EXPERIMENT_TERMS)
         /\ call.ret.Project = Matching(PROJECT_TERMS)
         /\ (call.text = <<>> => call.ret = EmptyCands)

\* Some order of the elements of a set of strings
SeqOf(S) == CHOOSE o \in Orders(S) : TRUE

\* The stores after the documents its[i..] are assembled from the candidates
\* of extract_candidates alone
RECURSIVE HeuristicOnly(_, _, _)
HeuristicOnly(its, i, g) ==
  IF i > Len(its) THEN g
  ELSE LET lab == get_article_label(its[i], <<"A","r","t","i","c","l","e"," ">> \o IntToStr(i))
           a == add_node(g, T_Article, lab.val)
           c == extract_candidates(concatenate_text(its[i]).val)
           e == ExperimentLoop(a.g, Sorted(SeqOf(c.Experiment)), a.id, <<>>)
           b == EntityLoop(e.g, T_BioSystem, Sorted(SeqOf(c.BioSystem)), <<>>)
           f == EntityLoop(b.g, T_Effect, Sorted(SeqOf(c.Effect)), <<>>)
           p == ProjectLoop(f.g, Sorted(SeqOf(c.Project)), a.id, <<>>)
       IN  HeuristicOnly(its, i + 1, LinkLoop(p.g, e.ids, b.ids, f.ids))

\* No model can be loaded: spaCy is missing, or every spacy.load raises
NoModelAvailable(env) ==
  \/ ~env.installed
  \/ env.loadable \cap (Range(SCI_MODELS) \cup {WEB_MODEL}) = {}

\* C10. Absent model is a no-op: when no model can be loaded, try_load_nlp
\* yields None and does not raise; without a model extract_with_nlp returns
\* four empty sets for every document; and the build returns and writes
\* exactly what the assembly of the heuristic candidates alone gives.
C10_AbsentModelNoOp ==
  /\ (pc \notin {"idle", "load_nlp"} /\ NoModelAvailable(spacy_env))
     => /\ nlp = None
        /\ ~(pc = "raised" /\ idx = 0)
  /\ (pc \in {"experiments", "bio", "effects", "projects", "link"} /\ nlp = None)
     => /\ loc.nlp_cands = EmptyCands
        /\ loc.cands = extract_candidates(loc.text)
  /\ (pc = "returned" /\ nlp = None)
     => LET h == HeuristicOnly(items, 1, EmptyStores)
        IN  /\ nodes = h.nodes
            /\ edges = h.edges
            /\ nodes_json = FileOf(h.nodes)
            /\ edges_json = FileOf(h.edges)

\* With spaCy installed and every load raising, a build over two documents has
\* returned a graph.
C10_Witness ==
  /\ pc = "returned"
  /\ spacy_env.installed
  /\ NoModelAvailable(spacy_env)
  /\ Len(items) = 2
  /\ Len(edges) > 0

\* The positions of build_graph inside the body of the per-document loop, after
\* the candidates of the document were computed
DocPhases == {"experiments", "bio", "effects", "projects", "link"}

\* extract_with_nlp caught an exception of the model for the current document
NlpErrorCaught ==
  /\ pc \in DocPhases
  /\ logs # <<>>
  /\ logs[Len(logs)].msg = "NLP error"

\* C11 as stated. Enrichment errors degrade to empty sets: if the model raises
\* at any point of the entity recognition of a document (on the text, or while
\* an entity is read), extract_with_nlp returns four empty sets, so the
\* candidates of the document are exactly its heuristic candidates.
C11_ErrorGivesEmptySets ==
  NlpErrorCaught
  => /\ loc.nlp_cands = EmptyCands
     /\ loc.cands = extract_candidates(loc.text)

\* The invocation ended with an exception raised by the write of nodes.json or
\* of edges.json (the loop over the documents was completed)
WriteFailed == pc = "raised" /\ idx > Len(items)

\* The error kind the specification names for a failed write of the output
GraphWriteFailure == "graph write failure"

\* C12 as stated. Output write failure is fatal and identified: when the write
\* of nodes.json or edges.json fails, build_graph does not return normally (no
\* return is recorded for the invocation) and the error that reaches the
\* invoker has the kind "graph write failure".
C12_WriteFailureIdentified ==
  WriteFailed
  => /\ Len(returns) < builds
     /\ exc = GraphWriteFailure

\* The invocation ended with nodes.json replaced by the new build and edges.json
\* not: the write of edges.json failed
HalfWritten ==
  /\ WriteFailed
  /\ nodes_json = FileOf(nodes)
  /\ edges_json # FileOf(edges)

\* The messages build_graph logs about its output files
OutputMessages == {"Saved nodes", "Saved edges"}

\* C13 as stated. No silent half-written output: when an invocation ends with
\* one output file replaced and the other not, the builder has logged
\* something about its output.
C13_HalfWrittenIsLogged ==
  HalfWritten => \E k \in 1..Len(logs) : logs[k].msg \in OutputMessages

\* C14 as stated. Setup errors propagate: when the input directory cannot be
\* read, build_graph raises instead of going on to write the output files and
\* to return.
C14_MissingDirPropagates ==
  ~dir_exists => pc \notin {"loop", "save_edges", "returned"}

\* The merged candidates of document i of an invocation that read the
\* documents its and whose model returned the enrichment enr
MergedOf(its, enr, i) ==
  MergeCands(extract_candidates(concatenate_text(its[i]).val), enr[i])

\* The stores that the documents its[i..], with the enrichment enr, give when
\* they are assembled on the stores g
RECURSIVE AssembledFrom(_, _, _, _)
AssembledFrom(its, enr, i, g) ==
  IF i > Len(its) THEN g
  ELSE LET lab == get_article_label(its[i], <<"A","r","t","i","c","l","e"," ">> \o IntToStr(i))
           a == add_node(g, T_Article, lab.val)
           c == MergedOf(its, enr, i)
           e == ExperimentLoop(a.g, Sorted(SeqOf(c.Experiment)), a.id, <<>>)
           b == EntityLoop(e.g, T_BioSystem, Sorted(SeqOf(c.BioSystem)), <<>>)
           f == EntityLoop(b.g, T_Effect, Sorted(SeqOf(c.Effect)), <<>>)
           p == ProjectLoop(f.g, Sorted(SeqOf(c.Project)), a.id, <<>>)
       IN  AssembledFrom(its, enr, i + 1, LinkLoop(p.g, e.ids, b.ids, f.ids))

\* C15. Every build starts from empty and replaces the previous output
\* wholesale: when an invocation reaches its first document the node list, the
\* dedup index and the edge list are empty, whatever an earlier invocation
\* left; and when it has returned, nodes.json and edges.json hold exactly what
\* the assembly of its own documents from empty stores gives.
C15_StartsEmptyReplacesOutput ==
  /\ (pc = "loop" /\ idx = 1)
     => /\ nodes = <<>>
        /\ node_index = <<>>
        /\ edges = <<>>
  /\ pc = "returned"
     => LET own == AssembledFrom(items, enriched, 1,
                                 [node_index |-> <<>>, nodes |-> <<>>, edges |-> <<>>])
        IN  /\ nodes_json = FileOf(own.nodes)
            /\ edges_json = FileOf(own.edges)

\* A second invocation has returned a graph that is not empty and is smaller
\* than the graph of the first one, whose files it replaced.
C15_Witness ==
  /\ pc = "returned"
  /\ Len(returns) = 2
  /\ returns[1].edges_json.data # <<>>
  /\ Len(nodes) > 0
  /\ Len(nodes) < Len(returns[1].nodes)
  /\ nodes_json = FileOf(nodes)

\* The sum of the second components of a set of pairs
RECURSIVE SumOfSet(_)
SumOfSet(S) ==
  IF S = {} THEN 0
  ELSE LET x == CHOOSE y \in S : TRUE IN x[2] + SumOfSet(S \ {x})

\* The positions at which build_graph is between two documents or past the
\* last one: idx - 1 documents were processed completely
BetweenDocs == pc \in {"loop", "save_edges", "returned"}

\* The Article label of document i of the running invocation
DocLabel(i) ==
  get_article_label(items[i], <<"A","r","t","i","c","l","e"," ">> \o IntToStr(i)).val

\* The labels of the nodes that a set of candidate terms gives
LabelsOf(S) == {normalize_label(t) : t \in S}

\* The labels of the nodes of type n_type
NodeLabels(ns, n_type) == {ns[i].label : i \in {k \in 1..Len(ns) : ns[k].type = n_type}}

\* The number of edges that one document with the merged candidates c yields
DocEdges(c) ==
  Cardinality(c.Experiment) + Cardinality(c.Project)
  + Cardinality(c.Experiment) * Cardinality(c.BioSystem)
  + Cardinality(c.Experiment) * Cardinality(c.Effect)

\* The documents processed completely by the running invocation: position,
\* Article label, merged candidates, the labels they give and the number of
\* edges the document yields
ProcessedDocs ==
  { LET c == merged[i]
    IN  [i |-> i, label |-> DocLabel(i), cands |-> c,
         E |-> LabelsOf(c.Experiment), B |-> LabelsOf(c.BioSystem),
         F |-> LabelsOf(c.Effect), P |-> LabelsOf(c.Project),
         edges |-> DocEdges(c)] : i \in 1..(idx - 1) }

\* C16. Edges are not deduplicated and accumulate: after k documents the edge
\* list holds as many edges as the documents yielded in sum, and it holds one
\* copy of a DESCRIBES edge (Article to Experiment) and of an INVOLVES edge
\* (Experiment to Biological System) for every processed document that yields
\* it, so k documents yielding the same triple leave k copies.
C16_EdgesAccumulate ==
  BetweenDocs
  => LET D == ProcessedDocs
     IN  /\ Len(edges) = SumOfSet({<<d.i, d.edges>> : d \in D})
         /\ \A e \in NodeLabels(nodes, T_Experiment) :
              /\ \A a \in NodeLabels(nodes, T_Article) :
                   EdgeCount(nodes, edges, T_Article, a, DESCRIBES, T_Experiment, e)
                   = Cardinality({d \in D : d.label = a /\ e \in d.E})
              /\ \A b \in NodeLabels(nodes, T_BioSystem) :
                   EdgeCount(nodes, edges, T_Experiment, e, INVOLVES, T_BioSystem, b)
                   = Cardinality({d \in D : e \in d.E /\ b \in d.B})

\* Two documents with the same title, experiment term and biological system
\* were processed: the edge list holds an edge twice.
C16_Witness ==
  /\ pc = "returned"
  /\ Len(items) = 2
  /\ \E j, k \in 1..Len(edges) :
       /\ j < k
       /\ edges[j] = edges[k]
       /\ edges[j].relation = INVOLVES

\* C17 as stated. Every node label is normalized: in every reachable state the
\* label of each node, of every type, is a fixed point of normalize_label (no
\* leading or trailing whitespace, no whitespace other than single spaces, at
\* most 300 characters).
C17_LabelsAreFixedPoints ==
  \A i \in 1..Len(nodes) : normalize_label(nodes[i].label) = nodes[i].label

\* A label that normalize_label cut right after a space: it is MaxLabelLen
\* characters long, ends with that space and is normalized but for it
CutAtSpace(l) ==
  /\ Len(l) = MaxLabelLen
  /\ l[MaxLabelLen] = " "
  /\ normalize_label(l) = SubSeq(l, 1, MaxLabelLen - 1)

\* C17, amended. Every node label is at most 300 characters long, and it is a
\* fixed point of normalize_label unless it is an Article label that was cut
\* after a space, which keeps that one trailing space; the labels of the other
\* types are always fixed points.
C17_LabelsNormalizedUnlessCut ==
  \A i \in 1..Len(nodes) :
    /\ Len(nodes[i].label) <= MaxLabelLen
    /\ \/ normalize_label(nodes[i].label) = nodes[i].label
       \/ nodes[i].type = T_Article /\ CutAtSpace(nodes[i].label)

\* A build over two documents with long titles has returned: one Article label
\* was cut after a space, the other inside a word.
C17_Witness ==
  /\ pc = "returned"
  /\ \E i, j \in 1..Len(nodes) :
       /\ nodes[i].type = T_Article
       /\ CutAtSpace(nodes[i].label)
       /\ nodes[j].type = T_Article
       /\ Len(nodes[j].label) = MaxLabelLen
       /\ normalize_label(nodes[j].label) = nodes[j].label

\* The type of the node with the given id
TypeOf(ns, id) == ns[CHOOSE i \in 1..Len(ns) : ns[i].id = id].type

\* The types of the endpoints that each relation connects
RelationTypes ==
  (DESCRIBES :> <<T_Article, T_Experiment>>)
  @@ (FUNDS :> <<T_Project, T_Article>>)
  @@ (INVOLVES :> <<T_Experiment, T_BioSystem>>)
  @@ (OBSERVES :> <<T_Experiment, T_Effect>>)

\* C18. Edges are typed by relation: in every reachable state every DESCRIBES
\* edge goes from an Article node to an Experiment node, every FUNDS edge from
\* a Project node to an Article node, every INVOLVES edge from an Experiment
\* node to a Biological System node and every OBSERVES edge from an Experiment
\* node to an Effect node; no edge connects an Article node directly to a
\* Biological System or Effect node.
C18_EdgesTypedByRelation ==
  \A k \in 1..Len(edges) :
    LET s == TypeOf(nodes, edges[k].source)
        t == TypeOf(nodes, edges[k].target)
    IN  /\ edges[k].relation \in DOMAIN RelationTypes
        /\ <<s, t>> = RelationTypes[edges[k].relation]
        /\ ~(s = T_Article /\ t \in {T_BioSystem, T_Effect})

\* A build has returned a graph with edges of all four relations.
C18_Witness ==
  /\ pc = "returned"
  /\ \A rel \in DOMAIN RelationTypes : \E k \in 1..Len(edges) : edges[k].relation = rel

\* The number of edges of relation rel
CountRel(es, rel) == Cardinality({k \in 1..Len(es) : es[k].relation = rel})

\* C19. Full cross-product per document: a document with the merged candidate
\* sets E, B, F and P appends |E| DESCRIBES edges, |P| FUNDS edges, |E|*|B|
\* INVOLVES edges and |E|*|F| OBSERVES edges and no other edge, so that after
\* every document the count of each relation is the sum of these numbers over
\* the processed documents; every Experiment of a document is linked to every
\* Biological System and every Effect of the document, reused nodes included;
\* a document with E empty adds no INVOLVES and no OBSERVES edge.
C19_CrossProductPerDocument ==
  BetweenDocs
  => LET D == ProcessedDocs
     IN  /\ CountRel(edges, DESCRIBES)
            = SumOfSet({<<d.i, Cardinality(d.cands.Experiment)>> : d \in D})
         /\ CountRel(edges, FUNDS)
            = SumOfSet({<<d.i, Cardinality(d.cands.Project)>> : d \in D})
         /\ CountRel(edges, INVOLVES)
            = SumOfSet({<<d.i, Cardinality(d.cands.Experiment) * Cardinality(d.cands.BioSystem)>> :
                         d \in D})
         /\ CountRel(edges, OBSERVES)
            = SumOfSet({<<d.i, Cardinality(d.cands.Experiment) * Cardinality(d.cands.Effect)>> :
                         d \in D})
         /\ Len(edges) = CountRel(edges, DESCRIBES) + CountRel(edges, FUNDS)
                         + CountRel(edges, INVOLVES) + CountRel(edges, OBSERVES)
         /\ \A d \in D : \A e \in d.E :
              /\ \A b \in d.B :
                   EdgeCount(nodes, edges, T_Experiment, e, INVOLVES, T_BioSystem, b) >= 1
              /\ \A f \in d.F :
                   EdgeCount(nodes, edges, T_Experiment, e, OBSERVES, T_Effect, f) >= 1

\* A build over two documents has returned: the first has biological systems
\* and effects but no experiment, the second has several experiments and a
\* biological system whose node the first one created.
C19_Witness ==
  /\ pc = "returned"
  /\ \E d1, d2 \in ProcessedDocs :
       /\ d1.i < d2.i
       /\ d1.E = {} /\ d1.B # {} /\ d1.F # {}
       /\ Cardinality(d2.E) > 1
       /\ d1.B \cap d2.B # {}
  /\ CountRel(edges, INVOLVES) > 0

\* The conditions of the four mapping rules of extract_with_nlp, in the order
\* Project, Experiment, Biological System, Effect, for one entity
RulesOf(ent) ==
  LET label == Upper(ent.label_)
      low == Lower(normalize_label(ent.text))
  IN  << /\ label \in {L_ORG, L_FAC}
         /\ \E i \in 1..Len(PROJECT_TERMS) : Contains(Lower(PROJECT_TERMS[i]), low),
         /\ label \in {L_PERSON, L_ORG, L_PRODUCT}
         /\ \E i \in 1..Len(NLP_EXPERIMENT_WORDS) : Contains(NLP_EXPERIMENT_WORDS[i], low),
         /\ label \in {L_NORP, L_ORG, L_GPE, L_LOC}
         /\ \E i \in 1..Len(BIO_SYSTEM_TERMS) : Contains(BIO_SYSTEM_TERMS[i], low),
         \/ label \in {L_EVENT, L_PHENOMENON, L_DISEASE, L_SYMPTOM}
         \/ \E i \in 1..Len(EFFECT_TERMS) : Contains(EFFECT_TERMS[i], low) >>

\* The rules an entity satisfies
Satisfied(ent) == {k \in 1..4 : RulesOf(ent)[k]}

\* The buckets of the rules, in the order of precedence
RuleBucket == <<"Project", "Experiment", "BioSystem", "Effect">>

\* The bucket of the first rule that an entity satisfies; "" if it satisfies none
FirstBucket(ent) ==
  IF Satisfied(ent) = {} THEN ""
  ELSE RuleBucket[CHOOSE k \in Satisfied(ent) : \A j \in Satisfied(ent) : k <= j]

\* A call of extract_with_nlp with a model that raised nothing has returned
NlpCallReturned ==
  /\ call.fn = "extract_with_nlp"
  /\ call.done
  /\ call.model # None
  /\ call.run.raise_at = NoRaise

\* C20. NLP bucket precedence: extract_with_nlp places each recognised entity
\* in at most one bucket, that of the first rule it satisfies in the order
\* Project, Experiment, Biological System, Effect, and an entity that
\* satisfies no rule in no bucket: each bucket holds exactly the normalized
\* texts of the entities whose first rule is the rule of that bucket.
C20_FirstRuleWins ==
  NlpCallReturned
  => \A b \in DOMAIN EmptyCands :
       call.ret[b] = { normalize_label(call.run.ents[k].text) :
                         k \in {j \in 1..Len(call.run.ents) :
                                  FirstBucket(call.run.ents[j]) = b} }

\* A call has returned for an ORG entity whose text holds a project term and
\* an experiment word: it is in the Project bucket only.
C20_Witness ==
  /\ NlpCallReturned
  /\ Len(call.run.ents) = 1
  /\ Upper(call.run.ents[1].label_) = L_ORG
  /\ {1, 2} \subseteq Satisfied(call.run.ents[1])
  /\ call.ret.Project # {}
  /\ call.ret.Experiment = {}

\* C21 as stated. The Effect rule applies to any label: an entity that
\* satisfies none of the Project, Experiment and Biological System rules is in
\* the Effect bucket if its label is EVENT, PHENOMENON, DISEASE or SYMPTOM, or,
\* whatever its label, if its normalized text contains a term of EFFECT_TERMS
\* compared case-insensitively (every term, also one spelled with upper-case
\* letters).
C21_EffectForAnyLabel ==
  NlpCallReturned
  => \A k \in 1..Len(call.run.ents) :
       LET ent == call.run.ents[k]
           val == normalize_label(ent.text)
       IN  ( /\ Satisfied(ent) \cap {1, 2, 3} = {}
             /\ \/ Upper(ent.label_) \in {L_EVENT, L_PHENOMENON, L_DISEASE, L_SYMPTOM}
                \/ \E i \in 1..Len(EFFECT_TERMS) :
                     Contains(Lower(EFFECT_TERMS[i]), Lower(val)) )
           => val \in call.ret.Effect

\* The union, for one type, of what the two sources gave for the document
UnionOf(k) == loc.heur[k] \cup loc.nlp_cands[k]

\* Each term of U has its node of type n_type in ns
AllHaveNodes(ns, n_type, U) ==
  \A t \in U : Cardinality(Positions(ns, n_type, normalize_label(t))) = 1

\* The edges app join the article to the node of each term of U, once:
\* DESCRIBES from the article, or FUNDS to the article
OneEdgeEach(ns, app, n_type, U, article_id, rel) ==
  /\ Len(app) = Cardinality(U)
  /\ \A t \in U :
       LET id == ns[CHOOSE i \in Positions(ns, n_type, normalize_label(t)) : TRUE].id
           e == IF rel = DESCRIBES
                THEN [source |-> article_id, target |-> id, relation |-> rel]
                ELSE [source |-> id, target |-> article_id, relation |-> rel]
       IN  Cardinality({j \in 1..Len(app) : app[j] = e}) = 1

\* C22. The merge is a set union per type: for every document and type the
\* candidate set used for assembly is the heuristic set united with the NLP
\* set; every term of the union, so every heuristic term also when a model is
\* present, has its one (type, label) node once the loop of its type has run;
\* and the document adds one DESCRIBES edge per Experiment term of the union
\* and one FUNDS edge per Project term, a term of both sources counting once.
C22_MergeIsUnion ==
  /\ pc \in DocPhases
     => \A k \in DOMAIN EmptyCands : loc.cands[k] = UnionOf(k)
  /\ pc \in {"bio", "effects", "projects", "link"}
     => LET nE == Cardinality(UnionOf("Experiment"))
        IN  /\ AllHaveNodes(nodes, T_Experiment, UnionOf("Experiment"))
            /\ Len(edges) >= loc.edges_before + nE
            /\ OneEdgeEach(nodes, SubSeq(edges, loc.edges_before + 1, loc.edges_before + nE),
                           T_Experiment, UnionOf("Experiment"), loc.article_id, DESCRIBES)
            /\ pc # "link" => Len(edges) = loc.edges_before + nE
  /\ pc \in {"effects", "projects", "link"}
     => AllHaveNodes(nodes, T_BioSystem, UnionOf("BioSystem"))
  /\ pc \in {"projects", "link"}
     => AllHaveNodes(nodes, T_Effect, UnionOf("Effect"))
  /\ pc = "link"
     => LET nE == Cardinality(UnionOf("Experiment"))
        IN  /\ AllHaveNodes(nodes, T_Project, UnionOf("Project"))
            /\ OneEdgeEach(nodes, SubSeq(edges, loc.edges_before + nE + 1, Len(edges)),
                           T_Project, UnionOf("Project"), loc.article_id, FUNDS)

\* A document has been assembled with a model present, an Experiment term that
\* both sources produced, and one DESCRIBES edge to its node among the edges
\* of the document
C22_Witness ==
  /\ pc = "bio"
  /\ nlp # None
  /\ \E t \in loc.heur.Experiment \cap loc.nlp_cands.Experiment :
       /\ loc.heur.Experiment # loc.cands.Experiment
       /\ Len(edges) = loc.edges_before + Cardinality(loc.cands.Experiment)
       /\ \E i \in 1..Len(loc.exp_ids) :
            KeyOf(nodes, loc.exp_ids[i]) = <<T_Experiment, normalize_label(t)>>
       /\ Len(loc.exp_ids) = Cardinality(loc.cands.Experiment)

\* The title fields of a document that hold a string with non-whitespace content
UsableTitles(item) ==
  {i \in 1..Len(TitleKeys) :
     /\ TitleKeys[i] \in DOMAIN item.v
     /\ item.v[TitleKeys[i]].t = "str"
     /\ \E j \in 1..Len(item.v[TitleKeys[i]].v) : ~IsSpace(item.v[TitleKeys[i]].v[j])}

\* The label of the document at position n of the documents read: the first
\* usable title field, normalized, or else "Article <n>"
ExpectedLabel(item, n) ==
  IF UsableTitles(item) = {}
  THEN <<"A","r","t","i","c","l","e"," ">> \o IntToStr(n)
  ELSE LET i == CHOOSE k \in UsableTitles(item) : \A j \in UsableTitles(item) : k <= j
       IN  normalize_label(item.v[TitleKeys[i]].v)

\* The documents read successfully, in the sorted order of their file names
ReadSuccessfully ==
  LET files == Sorted(SeqOf(DOMAIN parsed_dir))
      Keep(f) == parsed_dir[f] # Unreadable
  IN  [i \in 1..Len(SelectSeq(files, Keep)) |-> parsed_dir[SelectSeq(files, Keep)[i]]]

\* C23. Article label derivation: the Article label of a document is the
\* normalized value of the first of title, article_title, paper_title that is
\* a string with non-whitespace content, or else "Article <n>" with n the
\* 1-based position of the document among those read successfully; each
\* processed document has exactly one Article node, created or reused, and it
\* precedes every entity node the document creates.
C23_ArticleLabel ==
  pc \in DocPhases
  => /\ items = ReadSuccessfully
     /\ KeyOf(nodes, loc.article_id) = <<T_Article, ExpectedLabel(items[idx], idx)>>
     /\ LET p == CHOOSE k \in 1..Len(nodes) : nodes[k].id = loc.article_id
        IN  /\ p <= loc.nodes_before + 1
            /\ \A k \in (loc.nodes_before + 1)..Len(nodes) :
                 nodes[k].type = T_Article => k = p
     /\ pc = "experiments" => Len(nodes) <= loc.nodes_before + 1
     /\ \A i \in 1..idx :
          Cardinality(Positions(nodes, T_Article, ExpectedLabel(items[i], i))) = 1

\* The second document read follows an unreadable file, has a blank title and
\* takes its label from article_title; or it has no usable title and is
\* "Article 1" although its file is the second
C23_Witness ==
  /\ pc = "link"
  /\ Len(nodes) > loc.nodes_before + 1
  /\ \E f \in DOMAIN parsed_dir : parsed_dir[f] = Unreadable
  /\ idx = 1
  /\ \/ items[idx] = DocTitleC
     \/ items[idx] = DocTitleA

\* A document object that has text fields and none of them is a string (nor
\* is sections a list)
NonStringText(item) ==
  /\ item.t = "dict"
  /\ (DOMAIN item.v) \cap (Range(TextKeys) \cup {K_sections}) # {}
  /\ \A key \in (DOMAIN item.v) \cap (Range(TextKeys) \cup {K_sections}) :
       item.v[key].t \notin {"str", "list"}

\* The documents of a batch other than those with non-string text fields
RECURSIVE WithoutNonString(_)
WithoutNonString(its) ==
  IF its = <<>> THEN <<>>
  ELSE IF NonStringText(Head(its)) THEN WithoutNonString(Tail(its))
  ELSE <<Head(its)>> \o WithoutNonString(Tail(its))

\* C24 as stated. A document with non-string text fields is skipped: while it
\* is processed it adds no node and no edge, and the output of a build without
\* a model equals the output of the same batch without that document.
C24_NonStringDocSkipped ==
  /\ (pc \in DocPhases /\ NonStringText(items[idx]))
     => (Len(nodes) = loc.nodes_before /\ Len(edges) = loc.edges_before)
  /\ \A i \in 1..Len(returns) :
       returns[i].nlp = None
       => LET g == HeuristicOnly(WithoutNonString(returns[i].items), 1, EmptyStores)
          IN  returns[i].nodes = g.nodes /\ returns[i].edges = g.edges

\* The output files as the invocation in progress found them: those the
\* previous invocation left, or none
FilesBefore ==
  IF returns = <<>>
  THEN [nodes_json |-> Absent, edges_json |-> Absent]
  ELSE [nodes_json |-> returns[Len(returns)].nodes_json,
        edges_json |-> returns[Len(returns)].edges_json]

\* The invocation has not reached the Save block, or was aborted before it
BeforeSave ==
  \/ pc \in {"load_nlp", "read", "loop"} \cup DocPhases
  \/ pc = "raised" /\ exc # "OSError"

\* C25. The output is serialized once, at the end: no write to nodes.json or
\* edges.json happens before the last document has been processed, nodes.json
\* is written before edges.json, each with the final list; so a build that
\* aborts while it processes documents leaves the files as it found them.
C25_SerializedOnceAtEnd ==
  /\ BeforeSave
     => (nodes_json = FilesBefore.nodes_json /\ edges_json = FilesBefore.edges_json)
  /\ pc = "save_edges"
     => (nodes_json = FileOf(nodes) /\ edges_json = FilesBefore.edges_json
         /\ idx > Len(items))
  /\ pc = "returned"
     => /\ nodes_json = FileOf(nodes) /\ edges_json = FileOf(edges)
        /\ returns[Len(returns)].nodes = nodes /\ returns[Len(returns)].edges = edges

\* A second build aborted on its second document, with nodes and edges of the
\* first document in memory, over the files that the first build wrote
C25_Witness ==
  /\ pc = "raised"
  /\ exc # "OSError"
  /\ builds = 2
  /\ idx = 2
  /\ Len(nodes) > 1
  /\ Len(edges) > 0
  /\ nodes_json.exists
  /\ nodes_json = returns[1].nodes_json
  /\ edges_json = returns[1].edges_json
  /\ nodes_json.data # nodes

\* The messages that try_load_nlp logs
LoadMessages ==
  { "Trying to load SciSpacy model",
    "Falling back to spaCy model",
    "spaCy model en_core_web_sm not found. Proceeding without NLP.",
    "spaCy not installed. Proceeding without NLP." }

\* The positions of the log at which a call of try_load_nlp begins: each call
\* logs first that spaCy is not installed or that it tries the first model
LoadCalls(lg) ==
  {i \in 1..Len(lg) :
     \/ lg[i].msg = "spaCy not installed. Proceeding without NLP."
     \/ lg[i].msg = "Trying to load SciSpacy model" /\ lg[i].arg = SCI_MODELS[1]}

\* C26. Model loading happens once, up front: in every invocation
\* try_load_nlp is called exactly once, before any document is read or
\* processed, and the value it returned (a model or None) is the one used for
\* every document; nothing is loaded inside the per-document loop.
C26_ModelLoadedOnceUpFront ==
  /\ pc = "load_nlp" => (logs = <<>> /\ items = <<>> /\ idx = 0)
  /\ pc \notin {"idle", "load_nlp"}
     => LET r == try_load_nlp(spacy_env)
        IN  /\ LoadCalls(logs) = {1}
            /\ SubSeq(logs, 1, Len(r.logs)) = r.logs
            /\ \A i \in (Len(r.logs) + 1)..Len(logs) : logs[i].msg \notin LoadMessages
            /\ nlp = r.val
            /\ \A i \in 1..Len(enriched) : nlp = None => enriched[i] = EmptyCands

\* A loaded model has been used for two documents of one build
C26_Witness ==
  /\ pc = "link"
  /\ idx = 2
  /\ nlp # None
  /\ Len(enriched) = 2
  /\ enriched[1] # EmptyCands
  /\ enriched[2] # EmptyCands
  /\ LoadCalls(logs) = {1}

\* s is an initial part of t
IsPrefix(s, t) == Len(s) <= Len(t) /\ SubSeq(t, 1, Len(s)) = s

\* The index f is kept in g, entry by entry
IndexKept(f, g) == \A k \in DOMAIN f : k \in DOMAIN g /\ g[k] = f[k]

\* A step of build_graph after the stores were created keeps every node, every
\* edge and every index entry where and as it was; the index grows with the
\* node list only; add_node on a key that is indexed returns its id and leaves
\* the three stores as they are; add_edge leaves the node list and the index
\* as they are
AppendOnlyStep ==
  /\ (pc \in {"loop", "save_edges"} \cup DocPhases)
     => /\ IsPrefix(nodes, nodes')
        /\ IsPrefix(edges, edges')
        /\ IndexKept(node_index, node_index')
        /\ Cardinality(DOMAIN node_index') = Len(nodes')
  /\ \A key \in DOMAIN node_index :
       add_node(Stores, key[1], key[2]) = [g |-> Stores, id |-> node_index[key]]
  /\ \A a \in DOMAIN node_index, rel \in {DESCRIBES, FUNDS, INVOLVES, OBSERVES} :
       LET g == add_edge(Stores, node_index[a], node_index[a], rel)
       IN  /\ g.nodes = nodes
           /\ g.node_index = node_index
           /\ IsPrefix(edges, g.edges)
  /\ (pc = "loop" /\ pc' = "experiments"
      /\ <<T_Article, KeyOf(nodes', loc'.article_id)[2]>> \in DOMAIN node_index)
     => (nodes' = nodes /\ node_index' = node_index /\ edges' = edges
         /\ loc'.article_id = node_index[<<T_Article, KeyOf(nodes', loc'.article_id)[2]>>])
  /\ (pc = "link") => (nodes' = nodes /\ node_index' = node_index)

\* C27. The collections are append-only during a build: no step of
\* build_graph removes or modifies a node or an edge; add_node with a
\* (type, label) already indexed returns the existing id and leaves the node
\* list, the index and the edge list unchanged; add_edge never changes the
\* node list or the index.
C27_AppendOnly == [][AppendOnlyStep]_vars

\* The second document of a build has the title of the first: its Article
\* node and its entity nodes were all reused, the node list is as it was
\* before the document while the document has added edges
C27_Witness ==
  /\ pc = "link"
  /\ idx = 2
  /\ loc.exp_ids # <<>>
  /\ loc.bio_ids # <<>>
  /\ Len(nodes) = loc.nodes_before
  /\ Len(edges) > loc.edges_before

\* The part of an id after its last underscore
SuffixOf(id) ==
  LET p == CHOOSE i \in 1..Len(id) :
             id[i] = "_" /\ \A j \in (i + 1)..Len(id) : id[j] # "_"
  IN  SubSeq(id, p + 1, Len(id))

\* C28. Index and node list agree, ids are unique: in every reachable state
\* of a build the dedup index has exactly one entry per node of the list, the
\* (type, label) of the node mapped to the id of the node, and no other entry;
\* the ids of the nodes are pairwise distinct; and the numeric suffix of the
\* id of the node at 1-based position k is k.
C28_IndexAgreesWithNodes ==
  /\ DOMAIN node_index = {<<nodes[k].type, nodes[k].label>> : k \in 1..Len(nodes)}
  /\ \A k \in 1..Len(nodes) : node_index[<<nodes[k].type, nodes[k].label>>] = nodes[k].id
  /\ Cardinality(DOMAIN node_index) = Len(nodes)
  /\ \A i, j \in 1..Len(nodes) : nodes[i].id = nodes[j].id => i = j
  /\ \A k \in 1..Len(nodes) : SuffixOf(nodes[k].id) = IntToStr(k)

\* While the second document is assembled the list holds ten nodes or more,
\* of several types, and the document has reused a node of the first
C28_Witness ==
  /\ pc = "link"
  /\ idx = 2
  /\ Len(nodes) >= 10
  /\ \E k \in 1..Len(nodes) : nodes[k].type = T_BioSystem /\ Len(SuffixOf(nodes[k].id)) = 2
  /\ \E i \in 1..Len(loc.exp_ids), k \in 1..loc.nodes_before : nodes[k].id = loc.exp_ids[i]

\* What a reader gets who loads the two files as they are on disk: two complete
\* JSON arrays, every edge of the one joining ids of nodes of the other
PairConsistent(nf, ef) ==
  /\ nf.exists /\ ef.exists
  /\ "truncated" \notin DOMAIN nf
  /\ "truncated" \notin DOMAIN ef
  /\ \A i \in 1..Len(ef.data) :
       {ef.data[i].source, ef.data[i].target} \subseteq Ids(nf.data)

\* C29 as stated. The pair on disk is always consistent for a reader: at every
\* moment during and after a rebuild over an existing output (also between
\* the write of nodes.json and that of edges.json, and after a failure of the
\* second write) both files are complete arrays and every edge joins ids of
\* nodes of nodes.json.
C29_PairAlwaysConsistent ==
  (builds >= 2 \/ (pc \in {"returned", "idle"} /\ builds = 1))
  => PairConsistent(nodes_json, edges_json)

\* C29 as amended. The pair on disk is consistent outside the Save block only:
\* until a write has failed, whenever build_graph is not between its two
\* writes the files are both absent or both complete and from one build, every
\* edge joining ids of nodes of nodes.json; between the two writes nodes.json
\* is the new list and edges.json still the file of the previous build; after
\* a failed write nodes.json is the previous, the new or an incomplete file
\* and edges.json the previous or an incomplete file.
C29_PairConsistentOutsideSave ==
  /\ (pc \notin {"save_edges", "raised"} \/ (pc = "raised" /\ exc # "OSError"))
     => \/ ~nodes_json.exists /\ ~edges_json.exists /\ returns = <<>>
        \/ /\ returns # <<>>
           /\ nodes_json = FileOf(returns[Len(returns)].nodes)
           /\ edges_json = FileOf(returns[Len(returns)].edges)
           /\ PairConsistent(nodes_json, edges_json)
  /\ pc = "save_edges"
     => (nodes_json = FileOf(nodes) /\ edges_json = FilesBefore.edges_json)
  /\ (pc = "raised" /\ exc = "OSError")
     => /\ nodes_json \in {FilesBefore.nodes_json, FileOf(nodes), Truncated}
        /\ edges_json \in {FilesBefore.edges_json, Truncated}

\* Between the two writes of a second build: nodes.json is the new list, and
\* edges.json, still of the first build, has an edge to an id that the new
\* list does not hold
C29_Witness ==
  /\ pc = "save_edges"
  /\ builds = 2
  /\ nodes_json = FileOf(nodes)
  /\ edges_json = returns[1].edges_json
  /\ \E i \in 1..Len(edges_json.data) : edges_json.data[i].target \notin Ids(nodes)

----------------------------------------------------------------------------
(* The API process (services/fastapi_app.py) beside the builds *)

\* Number of requests followed
MaxCalls == 3

NODES_PATH == "nodes.json"
EDGES_PATH == "edges.json"

\* The file under a path of the output directory
FileAt(path) == IF path = NODES_PATH THEN nodes_json ELSE edges_json

\* _load_json(path) under lru_cache(maxsize=1): the cached value when the one
\* entry of the cache is for this path, whatever the file holds now; otherwise
\* the file is read, and its data cached in place of the entry of the other
\* path. A call that raises leaves the cache as it is.
load_json(cache, path) ==
  IF cache.path = path THEN [cache |-> cache, exc |-> "", val |-> cache.data]
  ELSE IF ~FileAt(path).exists THEN [cache |-> cache, exc |-> "FileNotFoundError"]
  ELSE IF "truncated" \in DOMAIN FileAt(path) THEN [cache |-> cache, exc |-> "ValueError"]
  ELSE [cache |-> [path |-> path, data |-> FileAt(path).data],
        exc |-> "", val |-> FileAt(path).data]

\* A rebuild has finished and none is running
Quiet == pc \in {"idle", "returned"} /\ builds >= 1

\* What get_nodes or get_edges answers from the outcome r of _load_json: the
\* list, or the HTTP error of the exception; with the moment of the request
ResponseOf(r, path) ==
  [made |-> TRUE,
   status |-> CASE r.exc = "" -> 200
                [] r.exc = "FileNotFoundError" -> 404
                [] OTHER -> 422,
   body |-> IF r.exc = "" THEN r.val ELSE <<>>,
   at |-> builds, quiet |-> Quiet, disk |-> FileAt(path)]

\* GET /kg/nodes
get_nodes ==
  /\ api.calls < MaxCalls
  /\ \E r \in {load_json(api.cache, NODES_PATH)} :
       api' = [api EXCEPT !.cache = r.cache, !.nodes = ResponseOf(r, NODES_PATH),
                          !.calls = @ + 1]
  /\ UNCHANGED << parsed_dir, dir_exists, spacy_env, pc, nlp, items, idx, node_index, nodes,
                  edges, loc, nodes_json, edges_json, logs, builds, returns, call, enriched,
                  exc, merged >>

\* GET /kg/edges
get_edges ==
  /\ api.calls < MaxCalls
  /\ \E r \in {load_json(api.cache, EDGES_PATH)} :
       api' = [api EXCEPT !.cache = r.cache, !.edges = ResponseOf(r, EDGES_PATH),
                          !.calls = @ + 1]
  /\ UNCHANGED << parsed_dir, dir_exists, spacy_env, pc, nlp, items, idx, node_index, nodes,
                  edges, loc, nodes_json, edges_json, logs, builds, returns, call, enriched,
                  exc, merged >>

\* GET /kg/stats: the two counts, each 0 when its file is missing or cannot be
\* loaded
get_kg_stats ==
  /\ api.calls < MaxCalls
  /\ \E rn \in {IF nodes_json.exists THEN load_json(api.cache, NODES_PATH)
                ELSE [cache |-> api.cache, exc |-> "", val |-> <<>>]} :
       \E re \in {IF edges_json.exists THEN load_json(rn.cache, EDGES_PATH)
                  ELSE [cache |-> rn.cache, exc |-> "", val |-> <<>>]} :
         api' = [api EXCEPT
                   !.cache = re.cache,
                   !.stats = [made |-> TRUE,
                              node_count |-> IF rn.exc = "" THEN Len(rn.val) ELSE 0,
                              edge_count |-> IF re.exc = "" THEN Len(re.val) ELSE 0],
                   !.calls = @ + 1]
  /\ UNCHANGED << parsed_dir, dir_exists, spacy_env, pc, nlp, items, idx, node_index, nodes,
                  edges, loc, nodes_json, edges_json, logs, builds, returns, call, enriched,
                  exc, merged >>

InitApi ==
  /\ dir_exists = TRUE
  /\ parsed_dir = ExampleDir
  /\ spacy_env = [installed |-> FALSE, loadable |-> {}]
  /\ pc = "idle"
  /\ nlp = None
  /\ items = <<>>
  /\ idx = 0
  /\ node_index = <<>>
  /\ nodes = <<>>
  /\ edges = <<>>
  /\ loc = NoLoc
  /\ nodes_json = Absent
  /\ edges_json = Absent
  /\ logs = <<>>
  /\ builds = 0
  /\ returns = <<>>
  /\ enriched = <<>>
  /\ exc = ""
  /\ merged = <<>>
  /\ call = NoCall
  /\ api = NoApi

NextApi ==
  \/ Next
  \/ get_nodes
  \/ get_edges
  \/ get_kg_stats

SpecApi == InitApi /\ [][NextApi]_vars


\* The answer a request for a file would carry if the file were read at the
\* moment of the request
FromDisk(resp) ==
  ("truncated" \notin DOMAIN resp.disk /\ resp.disk.exists)
    => (resp.status = 200 /\ resp.body = resp.disk.data)

\* The last answers of get_nodes and get_edges came after the same finished
\* rebuild
SameRebuild ==
  /\ api.nodes.made /\ api.nodes.quiet
  /\ api.edges.made /\ api.edges.quiet
  /\ api.nodes.at = api.edges.at

\* Every endpoint of an edge of the list es is the id of a node of the list ns
EndpointsIn(es, ns) ==
  \A i \in 1..Len(es) : es[i].source \in Ids(ns) /\ es[i].target \in Ids(ns)

\* C30: a get_nodes or get_edges request made after a rebuild has finished
\* answers with the contents of the file that rebuild wrote, never with data
\* that _load_json cached from an earlier build; and the two answers after the
\* same rebuild form a consistent pair (every edge endpoint is a node id)
C30_ApiServesLatest ==
  /\ (api.nodes.made /\ api.nodes.quiet) => FromDisk(api.nodes)
  /\ (api.edges.made /\ api.edges.quiet) => FromDisk(api.edges)
  /\ SameRebuild => (api.nodes.status = 200 /\ api.edges.status = 200
                       => EndpointsIn(api.edges.body, api.nodes.body))

====
